---- MODULE Spec2Model ----
(***************************************************************************)
(* State-machine model of the TASER trading runtime: the scheduler         *)
(* (startup recovery, scan cycle, re-entry hygiene, heatmap gate), the     *)
(* sqlite trade/order tables, paper/live bracket placement and the         *)
(* per-position managers.                                                  *)
(*                                                                         *)
(* Units.  Prices are integers in 1e-5 of a quote unit (100.00 is          *)
(* 10000000), so that every percentage the code takes of a price on the    *)
(* 0.05 grid is exact.  Percent knobs are in 1e-4 (0.004 is 40), ATR       *)
(* multipliers in 1e-2 (0.35 is 35).  The wall clock is in milliseconds.   *)
(***************************************************************************)
EXTENDS Integers, Sequences, FiniteSets, TLC

\* ---------------------------------------------------------------- bounds
MaxTrades == 2          \* rows the trades table may hold
MaxBoots  == 2          \* times the process is started
MaxClock  == 3          \* clock grid points after the start instant
MaxBars1m == 2          \* bars in the 1m series startup recovery fetches
MaxTpMoves == 1         \* TP ladder changes a manager takes from its proposals
MaxTicks  == 2          \* loop iterations of one manager run

\* ------------------------------------------------------- scale helpers
PX(c)      == c * 1000                    \* c is a price in cents
BP(x, bp)  == (x * bp) \div 10000         \* x * bp/10000, exact on the grid
PCT(x, p)  == (x * p) \div 100            \* x * p/100, exact on the grid
Abs(x)     == IF x < 0 THEN -x ELSE x
Max2(a, b) == IF a >= b THEN a ELSE b
Min2(a, b) == IF a <= b THEN a ELSE b
\* the element of a one-element set: a stage's result, computed once
The(S)     == CHOOSE x \in S : TRUE
\* round(x, 4) on the 1e-5 price scale
Round4(x)  == ((x + 5) \div 10) * 10

\* --------------------------------------------- configuration (config.py)
\* Values are config.py's defaults, except the two the environment must
\* set for both engines to run: ENGINE_ORDER (default "trendscalp") is
\* "trendscalp,taser" and TRENDSCALP_ENABLED (default false) is true.
\* SCAN_INTERVAL_SECONDS has no default (a required variable).
SINGLE_POSITION_MODE == TRUE
REQUIRE_NEW_BAR      == TRUE
TRENDSCALP_ENABLED   == TRUE
OPENAI_USE           == FALSE
ENGINE_ORDER         == <<"trendscalp", "taser">>
AGGRESSION           == "balanced"
MIN_REENTRY_SECONDS  == 90
BLOCK_REENTRY_PCT    == 40
REENTRY_COOLDOWN_BARS_5M == 1
ENGINE_COOLDOWN_AFTER_2_SL_MIN == 15
MANAGE_POLL_SECONDS  == 3
MIN_SL_PCT           == 60
MAX_SL_PCT           == 130
FEE_PCT              == 5
FEE_PAD_MULT         == 2

\* ------------------------------------------------------------ the clock
\* The wall clock moves on a grid: whole steps of ClockStepS seconds from
\* the start instant, each with a sub-second part of 0 or 500 ms.
ClockStepS  == MIN_REENTRY_SECONDS \div 2
Epoch0S     == 18 * 60 + 30
ClockValues == { (Epoch0S + k * ClockStepS) * 1000 + f : k \in 0..MaxClock, f \in {0, 500} }
Bar5Ms      == 5 * 60 * 1000
Bar1Ms      == 60 * 1000

VARIABLES
    now,                 \* wall clock, ms
    dry_run,             \* C.DRY_RUN of this deployment
    trades,              \* trades table: row id = index
    orders,              \* orders table rows, in insertion order
    pc,                  \* where the scheduler task is
    last_traded_bar_ts,  \* scheduler state key (0 = unset)
    ts_last,             \* trendscalp per-process re-entry memory
    mgr,                 \* locals of the running manager
    boots,               \* process starts so far
    sl_held,             \* per trade id, the stop its manager held last (0 = never managed)
    op,                  \* the handler that ran last, with its inputs
    tags                 \* telemetry tags the last handler emitted

vars == <<now, dry_run, trades, orders, pc, last_traded_bar_ts, ts_last, mgr, boots, sl_held, op, tags>>

Sides == {"LONG", "SHORT"}

\* -------------------------------------------------------------- db.py
OpenStatuses == {"OPEN", "PARTIAL"}

\* a has_open_trade that compares against lower-case status names and so
\* never finds a row
has_open_trade_lowercase(T) == \E i \in 1..Len(T) : T[i].status \in {"open", "partial"}

\* db.has_open_trade: COUNT(*) WHERE status IN ('OPEN','PARTIAL') > 0
has_open_trade(T) == \E i \in 1..Len(T) : T[i].status \in OpenStatuses

\* db.get_open_trade: the open row with the largest id (0 = none)
get_open_trade(T) ==
    IF has_open_trade(T)
    THEN CHOOSE i \in 1..Len(T) : /\ T[i].status \in OpenStatuses
                                  /\ \A j \in 1..Len(T) : T[j].status \in OpenStatuses => j <= i
    ELSE 0

\* db.list_open_trades: ids of the open rows
list_open_trades(T) == { i \in 1..Len(T) : T[i].status \in OpenStatuses }

\* db.new_trade: INSERT ... status 'OPEN', created_ts = int(time.time()*1000)
new_trade(T, side, entry, sl, tps, qty, engine, t) ==
    Append(T, [side |-> side, entry |-> entry, sl |-> sl, tps |-> tps, qty |-> qty,
               status |-> "OPEN", created_ts |-> t, closed_ts |-> 0,
               exit_price |-> 0, engine |-> engine])

\* db.close_trade: status = tag, closed_ts = now, exit_price
close_trade(T, tid, exit_px, tag, t) ==
    [T EXCEPT ![tid].status = tag, ![tid].closed_ts = t, ![tid].exit_price = exit_px]

\* db.update_trade_status: closed_ts is stamped only for CLOSED / STOPPED
update_trade_status(T, tid, status, t) ==
    IF tid \in 1..Len(T)
    THEN [T EXCEPT ![tid].status = status,
                   ![tid].closed_ts = IF status \in {"CLOSED", "STOPPED"} THEN t ELSE @]
    ELSE T

\* db.add_order: one more row in the orders table
add_order(O, tid, typ, price, status) ==
    Append(O, [tid |-> tid, typ |-> typ, price |-> price, status |-> status])

\* number of order rows of a trade
order_count(O, tid) == Cardinality({ i \in 1..Len(O) : O[i].tid = tid })
\* ------------------------------------------------------- scheduler.py
\* a _candle_sl_hit that wants the bar to go through the stop, not touch it
_candle_sl_hit_strict(is_long, hi, lo, sl) == IF is_long THEN lo < sl ELSE hi > sl

\* _candle_sl_hit
_candle_sl_hit(is_long, hi, lo, sl) == IF is_long THEN lo <= sl ELSE hi >= sl

\* _pct(a, b) < bp/10000, with _pct(a, b) = |a - b| / |b|
_pct_lt(a, b, bp) == Abs(a - b) * 10000 < bp * Abs(b)

\* _now_s: int(time.time())
_now_s(t) == t \div 1000

\* _recent_closed_trade: id of the last row (by id) whose closed_ts is set
_recent_closed_trade(T) ==
    IF \E i \in 1..Len(T) : T[i].closed_ts # 0
    THEN CHOOSE i \in 1..Len(T) : /\ T[i].closed_ts # 0
                                  /\ \A j \in 1..Len(T) : T[j].closed_ts # 0 => j <= i
    ELSE 0

\* seconds since the last close, as the gate computes them
reentry_ago(T, t) ==
    LET last == _recent_closed_trade(T)
    IN  Max2(0, _now_s(t) - (T[last].closed_ts \div 1000))

\* _gate_reentry: "" when the scan may proceed, else the blocking reason
_gate_reentry(now_ts, price, side, T, last_bar, t) ==
    LET last == _recent_closed_trade(T) IN
    IF REQUIRE_NEW_BAR /\ last_bar # 0 /\ last_bar = now_ts
    THEN "same 5m bar (REQUIRE_NEW_BAR)"
    ELSE IF last # 0 /\ reentry_ago(T, t) < MIN_REENTRY_SECONDS
         THEN IF /\ side \in Sides
                 /\ T[last].side = side
                 /\ _pct_lt(price, T[last].entry, BLOCK_REENTRY_PCT)
              THEN "price too close to last entry (BLOCK_REENTRY_PCT)"
              ELSE "cool-off < MIN_REENTRY_SECONDS"
         ELSE ""

\* _hm_gate_params for the configured aggression
_hm_gate_params ==
    IF AGGRESSION = "aggressive" THEN [tol_pct |-> 10, need_tfs |-> 3, top_n |-> 12]
    ELSE IF AGGRESSION = "conservative" THEN [tol_pct |-> 25, need_tfs |-> 2, top_n |-> 16]
    ELSE [tol_pct |-> 15, need_tfs |-> 2, top_n |-> 12]

\* _engine_order: aliases normalised, duplicates dropped
_engine_order == ENGINE_ORDER

\* _engine_on_cooldown: the engine's last two closed trades both ended on a
\* stop and the later one closed less than the cool-down ago
_engine_on_cooldown(engine, T, t) ==
    LET rows == { i \in 1..Len(T) : T[i].engine = engine /\ T[i].closed_ts # 0 }
        top2 == { i \in rows : Cardinality({ j \in rows : j > i }) < 2 }
        isSL(i) == T[i].status \in {"CLOSED_SL", "CLOSED_SL_RECOVERED"}
        lastc == CHOOSE c \in { T[i].closed_ts : i \in top2 } :
                     \A i \in top2 : T[i].closed_ts <= c
    IN  /\ ENGINE_COOLDOWN_AFTER_2_SL_MIN > 0
        /\ Cardinality(top2) = 2
        /\ \A i \in top2 : isSL(i)
        /\ t - lastc < ENGINE_COOLDOWN_AFTER_2_SL_MIN * 60 * 1000

\* ---------------------------------------------------- heatmap_store.py
HmTFs == <<"5m", "15m", "1h", "1d", "30d">>

\* _nearest_levels: the levels within tol of price, at/above and at/below it
_nearest_levels(levels, price, tol_pct) ==
    LET tol  == BP(price, tol_pct)
        near == { i \in 1..Len(levels) : Abs(levels[i] - price) <= tol }
    IN  [above |-> { i \in near : levels[i] >= price },
         below |-> { i \in near : levels[i] <= price }]

\* confluence_gate: block LONG under resistance on >= need_tfs timeframes,
\* SHORT over support on >= need_tfs timeframes; an empty map never blocks
confluence_gate(hm_multi, price, side, tol_pct, need_tfs, top_n) ==
    LET keys == { k \in 1..Len(HmTFs) : \E j \in 1..Len(hm_multi) : hm_multi[j].tf = HmTFs[k] }
        lv(k) == LET j == CHOOSE j \in 1..Len(hm_multi) : hm_multi[j].tf = HmTFs[k]
                 IN  SubSeq(hm_multi[j].levels, 1, Min2(top_n, Len(hm_multi[j].levels)))
        hits_above == Cardinality({ k \in keys : _nearest_levels(lv(k), price, tol_pct).above # {} })
        hits_below == Cardinality({ k \in keys : _nearest_levels(lv(k), price, tol_pct).below # {} })
    IN  IF hm_multi = <<>> THEN FALSE
        ELSE \/ side = "LONG"  /\ hits_above >= need_tfs
             \/ side = "SHORT" /\ hits_below >= need_tfs
\* ---------------------------------------------------------- the engines
\* What an engine hands the scheduler.  A firing engine enters at the scan
\* price with a stop DraftSLDist away and a three-step TP ladder.
DraftSLDist == PX(100)
DraftTPDist == <<PX(60), PX(100), PX(150)>>

Signal(side, price, engine) ==
    [side |-> side, entry |-> price,
     sl  |-> IF side = "LONG" THEN price - DraftSLDist ELSE price + DraftSLDist,
     tps |-> [k \in 1..3 |-> IF side = "LONG" THEN price + DraftTPDist[k]
                                              ELSE price - DraftTPDist[k]],
     engine |-> engine]

NoSignal(engine) == [side |-> "NONE", entry |-> 0, sl |-> 0, tps |-> <<>>, engine |-> engine]

\* timestamp of the 5m bar the feed shows at time t: the exchange's candles
\* follow the wall clock
Tf5Ts(t) == (t \div Bar5Ms) * Bar5Ms

\* trendscalp._bars_since: whole 5m bars from last_ts to the current bar
\* (-1 stands for None)
_bars_since(curr_ts, last_ts) ==
    IF last_ts = 0 THEN -1 ELSE (curr_ts - last_ts) \div Bar5Ms

NoTsMem == [px |-> 0, side |-> "NONE", bar |-> 0]

\* trendscalp.scalp_signal: the engine's own same-bar and distance gates in
\* front of the setup; a fired side is remembered for the next scans
scalp_signal(price, curr_bar_ts, raw, mem) ==
    IF REQUIRE_NEW_BAR /\ mem.bar # 0 /\ mem.bar = curr_bar_ts
    THEN [d |-> NoSignal("trendscalp"), mem |-> mem, tags |-> {"REENTRY_PRE"}]
    ELSE IF /\ raw \in Sides
            /\ mem.px # 0
            /\ mem.side = raw
            /\ _bars_since(curr_bar_ts, mem.bar) <= REENTRY_COOLDOWN_BARS_5M
            /\ _pct_lt(price, mem.px, BLOCK_REENTRY_PCT)
    THEN [d |-> NoSignal("trendscalp"), mem |-> mem, tags |-> {"REENTRY_BLOCK"}]
    ELSE IF raw \in Sides
    THEN [d |-> Signal(raw, price, "trendscalp"),
          mem |-> [px |-> price, side |-> raw, bar |-> curr_bar_ts], tags |-> {}]
    ELSE [d |-> NoSignal("trendscalp"), mem |-> mem, tags |-> {}]

\* _try_trendscalp: disabled or cooling down engines give nothing; an
\* exception out of scalp_signal (raw = "RAISE") is logged and answered
\* with None, which the engine loop reads as no signal of this engine
_try_trendscalp(price, curr_bar_ts, raw, mem, T, t) ==
    IF ~TRENDSCALP_ENABLED
    THEN [d |-> NoSignal("trendscalp"), mem |-> mem, tags |-> {"DISABLED"}]
    ELSE IF _engine_on_cooldown("trendscalp", T, t)
    THEN [d |-> NoSignal("trendscalp"), mem |-> mem, tags |-> {"COOLDOWN"}]
    ELSE IF raw = "RAISE"
    THEN [d |-> NoSignal("trendscalp"), mem |-> mem, tags |-> {"SCALP_ERROR"}]
    ELSE scalp_signal(price, curr_bar_ts, raw, mem)

\* _call_taser_signal: the rules engine, stamped 'taser'; an exception out
\* of taser_signal (raw = "RAISE") is answered with a neutral shell
_call_taser_signal(price, raw) ==
    IF raw = "RAISE" THEN NoSignal("taser")
    ELSE IF raw \in Sides THEN Signal(raw, price, "taser") ELSE NoSignal("taser")

\* one engine attempt of scan_once, by engine name
call_engine(eng, inp, mem, T, t) ==
    IF eng = "trendscalp"
    THEN _try_trendscalp(inp.price, Tf5Ts(inp.bar), inp.raw_ts, mem, T, t)
    ELSE IF eng = "taser"
    THEN [d |-> _call_taser_signal(inp.price, inp.raw_taser), mem |-> mem, tags |-> {}]
    ELSE [d |-> NoSignal(eng), mem |-> mem, tags |-> {}]

\* an engine loop that a raising engine ends: the engines after it are
\* not consulted
RECURSIVE try_engines_abort(_, _, _, _, _)
try_engines_abort(order, inp, acc, T, t) ==
    IF order = <<>> THEN acc
    ELSE LET r == call_engine(Head(order), inp, acc.mem, T, t)
             a == [d |-> r.d, mem |-> r.mem, tags |-> acc.tags \cup r.tags]
             raised == \/ Head(order) = "trendscalp" /\ inp.raw_ts = "RAISE"
                       \/ Head(order) = "taser" /\ inp.raw_taser = "RAISE"
         IN  IF r.d.side # "NONE" \/ raised THEN a
             ELSE The({ try_engines_abort(Tail(order), inp, a1, T, t) : a1 \in { a } })

\* the engine loops of scan_once: try the engines in order and stop at the
\* first that fires; acc carries the draft so far, the memory and the tags
RECURSIVE try_engines(_, _, _, _, _)
try_engines(order, inp, acc, T, t) ==
    IF order = <<>> THEN acc
    ELSE LET r == call_engine(Head(order), inp, acc.mem, T, t)
             a == [d |-> r.d, mem |-> r.mem, tags |-> acc.tags \cup r.tags]
         IN  IF r.d.side # "NONE" THEN a
             ELSE The({ try_engines(Tail(order), inp, a1, T, t) : a1 \in { a } })

\* the engines other than e, in configured order
engines_except(e) == SelectSeq(_engine_order, LAMBDA x : x # e)

\* _enforce_min_sl: a stop closer to entry than MIN_SL_PCT is pushed out to
\* the rail
_enforce_min_sl(d) ==
    LET rail == Max2(BP(d.entry, MIN_SL_PCT), 1)
    IN  IF Abs(d.entry - d.sl) >= rail THEN d
        ELSE [d EXCEPT !.sl = Round4(IF d.side = "LONG" THEN d.entry - rail ELSE d.entry + rail)]

\* ascending sort of a finite set of integers
RECURSIVE SortAsc(_)
SortAsc(S) ==
    IF S = {} THEN <<>>
    ELSE LET m == CHOOSE x \in S : \A y \in S : x <= y
         IN  <<m>> \o SortAsc(S \ {m})

Reverse(q) == [i \in 1..Len(q) |-> q[Len(q) + 1 - i]]

\* _sanitize_tp_order: keep the TPs beyond entry by the fee cushion, round,
\* dedupe, order them away from entry, keep at most three
_sanitize_tp_order(d) ==
    LET min_step == Max2(BP(d.entry, FEE_PCT) * FEE_PAD_MULT, 1)
        keep == IF d.side = "LONG"
                THEN { d.tps[i] : i \in { j \in 1..Len(d.tps) : d.tps[j] > d.entry + min_step } }
                ELSE { d.tps[i] : i \in { j \in 1..Len(d.tps) : d.tps[j] < d.entry - min_step } }
        r4   == { Round4(x) : x \in keep }
        vals == IF d.side = "LONG" THEN SortAsc(r4) ELSE Reverse(SortAsc(r4))
    IN  IF d.tps = <<>> \/ d.side \notin Sides THEN d
        ELSE [d EXCEPT !.tps = SubSeq(vals, 1, Min2(3, Len(vals)))]
\* -------------------------------------------------------- execution.py
PLACE_TP3_LIMIT      == TRUE
PREPLACE_TP1_PARTIAL == FALSE

\* _get_orders_safe: db has no get_orders, so getattr(db, "get_orders", None)
\* is None and the helper answers the empty list whatever the table holds
_get_orders_safe(O, tid) == <<>>

\* _already_bracketed: a market_entry among the orders the helper sees
_already_bracketed(O, tid) ==
    LET seen == _get_orders_safe(O, tid)
    IN  \E i \in 1..Len(seen) : seen[i].typ = "market_entry" /\ seen[i].status \in {"open", "filled"}

\* place_bracket.  ex tells which venue calls succeed in live mode.
\* Result: the orders table, the number of order ids returned, the telemetry
\* tags, and whether the call raised.
place_bracket(O, tid, sig, dry, ex) ==
    LET tp3 == IF sig.tps # <<>> THEN sig.tps[Len(sig.tps)] ELSE 0 IN
    IF _already_bracketed(O, tid)
    THEN [orders |-> O, ids |-> 0, tags |-> {"BRACKET_EXISTS"}, raised |-> FALSE]
    ELSE IF dry
    THEN LET o1 == add_order(O, tid, "market_entry", sig.entry, "filled")
             o2 == add_order(o1, tid, "stop_loss", sig.sl, "open")
             o3 == IF PLACE_TP3_LIMIT /\ tp3 # 0
                   THEN add_order(o2, tid, "take_profit_final", tp3, "open") ELSE o2
         IN  [orders |-> o3, ids |-> Len(o3) - Len(O),
              tags |-> {"PAPER_ORDERS"} \cup (IF PLACE_TP3_LIMIT /\ tp3 = 0 THEN {"TP3_SKIPPED"} ELSE {}),
              raised |-> FALSE]
    ELSE IF ~ex.entry_ok
    THEN [orders |-> O, ids |-> 0, tags |-> {"ENTRY_ERROR"}, raised |-> TRUE]
    ELSE LET o1 == add_order(add_order(O, tid, "market_entry", sig.entry, "filled"),
                             tid, "market_entry", sig.entry, "filled")
             o2 == IF ex.sl_ok THEN add_order(o1, tid, "stop_loss", sig.sl, "open") ELSE o1
             o3 == IF PLACE_TP3_LIMIT /\ tp3 # 0 /\ ex.tp_ok
                   THEN add_order(o2, tid, "take_profit_final", tp3, "open") ELSE o2
         IN  [orders |-> o3,
              ids |-> 1 + (IF ex.sl_ok THEN 1 ELSE 0) + (Len(o3) - Len(o2)),
              tags |-> {"LIVE_ORDERS"} \cup (IF ex.sl_ok THEN {} ELSE {"SL_ERROR"})
                       \cup (IF PLACE_TP3_LIMIT /\ tp3 # 0 /\ ~ex.tp_ok THEN {"TP3_ERROR"} ELSE {}),
              raised |-> FALSE]

\* venue answers place_bracket may meet; in paper mode no call is made
ExAllOk   == [entry_ok |-> TRUE, sl_ok |-> TRUE, tp_ok |-> TRUE]
ExAnswers == { ExAllOk,
               [entry_ok |-> FALSE, sl_ok |-> TRUE, tp_ok |-> TRUE],
               [entry_ok |-> TRUE, sl_ok |-> FALSE, tp_ok |-> TRUE] }
\* the answers the scan cycle is run against
ScanExAnswers == { e \in ExAnswers : e.sl_ok }
\* ------------------------------------------------- scan_once, by stages
SCAN_INTERVAL_SECONDS == 2
ERROR_SLEEP_SECONDS   == 5

\* The engine stage of scan_once, stage by stage.  Every stage hands on
\* [d, mem, tags, blocked]: the draft so far, the trendscalp memory, the
\* telemetry tags, and whether the heatmap gate blocked the first signal.

\* what is kept when a retry on other engines returns: its signal if one
\* fired, else the draft that was there before
scan_keep(d0, blocked, got) ==
    [d |-> IF got.d.side # "NONE" THEN got.d ELSE d0,
     mem |-> got.mem, tags |-> got.tags, blocked |-> blocked]

\* heatmap confluence gate on the first signal; when it blocks, the other
\* engines are tried
scan_gate(inp, T, t, first) ==
    LET gp    == _hm_gate_params
        block == /\ first.d.side # "NONE"
                 /\ confluence_gate(inp.hm, inp.price, first.d.side,
                                    gp.tol_pct, gp.need_tfs, gp.top_n)
    IN  IF block
        THEN The({ scan_keep(first.d, TRUE, got) :
                   got \in { try_engines(engines_except(first.d.engine), inp,
                                         [d |-> first.d, mem |-> first.mem,
                                          tags |-> first.tags \cup {"FILTER_HEATMAP_BLOCK"}],
                                         T, t) } })
        ELSE scan_keep(first.d, FALSE, first)

\* last-mile SL/TP sanitising of a draft that has a side, an entry and a stop
scan_sanitize(g) ==
    [g EXCEPT !.d = IF g.d.side \in Sides /\ g.d.entry > 0 /\ g.d.sl > 0
                    THEN _sanitize_tp_order(_enforce_min_sl(g.d)) ELSE g.d]

\* fallback: with no signal so far, the engines other than the draft's
scan_fallback(inp, T, t, g) ==
    IF g.d.side = "NONE"
    THEN The({ scan_keep(g.d, g.blocked, got) :
               got \in { try_engines(engines_except(g.d.engine), inp,
                                     [d |-> g.d, mem |-> g.mem, tags |-> g.tags], T, t) } })
    ELSE g

\* a scan that ends without a signal logs NO_TRADE
scan_no_trade(g) ==
    [g EXCEPT !.tags = @ \cup (IF g.d.side = "NONE" THEN {"NO_TRADE"} ELSE {})]

scan_select(inp, mem, T, t) ==
    The({ scan_no_trade(g3) :
          g3 \in { scan_fallback(inp, T, t, g2) :
          g2 \in { scan_sanitize(g1) :
          g1 \in { scan_gate(inp, T, t, first) :
          first \in { try_engines(_engine_order, inp,
                                  [d |-> NoSignal(_engine_order[1]), mem |-> mem, tags |-> {}],
                                  T, t) } } } } })

FirstPrice == PX(10000)
\* prices a scan may see: the feed stays at FirstPrice until a first trade
\* exists; afterwards it is within BLOCK_REENTRY_PCT of it, or beyond
ScanPrices(T) == IF T = <<>> THEN { FirstPrice } ELSE { PX(10020), PX(10050) }
\* the price of a scan that ends before it reads the price
PinPrice(T)   == CHOOSE p \in ScanPrices(T) : \A q \in ScanPrices(T) : p <= q
RawSignals == Sides \cup {"NONE"}

\* heatmaps a scan may build around the price: none, resistance just above
\* on two timeframes, support just below on two
HmLevel(tf, px) == [tf |-> tf, levels |-> <<px>>]
HeatMaps(price) ==
    { <<>>,
      << HmLevel("5m", price + PX(10)), HmLevel("15m", price + PX(10)) >>,
      << HmLevel("5m", price - PX(10)), HmLevel("1h", price - PX(10)) >> }

\* choose_size answers: nothing affordable, or one lot
Qtys == { 0, 2 }

\* instants an operation that started at t may reach within span ms
Within(t, span) == { u \in ClockValues : t <= u /\ u <= t + span }
\* whole-second instants from s seconds after t on
WholeAfter(t, s) == { u \in ClockValues : u % 1000 = 0 /\ u >= t + s * 1000 }
\* when a sleep of s seconds that started at t may end: the task wakes on
\* the clock's next whole step
SleepEnd(t, s) == { u \in WholeAfter(t, s) : u <= t + (s + ClockStepS) * 1000 }

NoMgr == [tid |-> 0]

Init ==
    /\ now = Epoch0S * 1000
    /\ dry_run \in BOOLEAN
    /\ trades = <<>>
    /\ orders = <<>>
    /\ pc = "boot"
    /\ last_traded_bar_ts = 0
    /\ ts_last = NoTsMem
    /\ mgr = NoMgr
    /\ sl_held = <<>>
    /\ boots = 1
    /\ op = [name |-> "init"]
    /\ tags = {}

\* scan_once, first exits: feed without candles; single-position skip;
\* pre-draft re-entry hygiene (same bar / cool-off)
scan_early ==
    /\ pc = "scan"
    /\ \E price \in ScanPrices(trades), raw_ts \in RawSignals, raw_taser \in RawSignals, feed_ok \in BOOLEAN :
         LET inp == [price |-> price, raw_ts |-> raw_ts, raw_taser |-> raw_taser, bar |-> now]
             pre == _gate_reentry(Tf5Ts(now), price, "NONE", trades, last_traded_bar_ts, now)
         IN  /\ \/ /\ ~feed_ok /\ tags' = {}
                   /\ price = PinPrice(trades) /\ raw_ts = "NONE" /\ raw_taser = "NONE"
                \/ /\ feed_ok /\ SINGLE_POSITION_MODE /\ has_open_trade(trades)
                   /\ tags' = {"SKIP"}
                   /\ price = PinPrice(trades) /\ raw_ts = "NONE" /\ raw_taser = "NONE"
                \/ /\ feed_ok /\ ~(SINGLE_POSITION_MODE /\ has_open_trade(trades))
                   /\ pre # ""
                   /\ tags' = {"REENTRY_PRE"}
                   /\ raw_ts = "NONE"
             /\ op' = [name |-> "scan_once", t0 |-> now, inp |-> inp, tid |-> 0, side |-> "NONE"]
    /\ pc' = "sleep_scan"
    /\ UNCHANGED <<now, dry_run, trades, orders, last_traded_bar_ts, ts_last, mgr, sl_held, boots>>
\* what run_scheduler hands the manager: the draft, the trade id and the
\* qty; resumed tells the call in the resume block after recovery from the
\* call in the scan loop
StartMgr(tid, d, qty, resumed) ==
    [tid |-> tid, draft |-> d, qty |-> qty, resumed |-> resumed]

\* scan_once from db.new_trade on: the row, the bracket pb placed for it,
\* and the hand-over to the manager (a raise of place_bracket lands in the
\* scheduler's except branch)
scan_create(inp, sel, qty, t2, tid, pb) ==
    /\ last_traded_bar_ts' = Tf5Ts(now)
    /\ now' = t2
    /\ trades' = new_trade(trades, sel.d.side, sel.d.entry, sel.d.sl, sel.d.tps, qty,
                           sel.d.engine, t2)
    /\ sl_held' = Append(sl_held, 0)
    /\ orders' = pb.orders
    /\ tags' = sel.tags \cup {"RULE_APPROVED", "APPROVED", "BRACKET_PLACE"} \cup pb.tags
                \cup (IF pb.raised THEN {"RUN_ERROR"} ELSE {})
    /\ op' = [name |-> "scan_once", t0 |-> now, inp |-> inp, tid |-> tid, side |-> sel.d.side]
    /\ IF pb.raised
       THEN pc' = "sleep_err" /\ mgr' = mgr
       ELSE pc' = "manage_start" /\ mgr' = StartMgr(tid, sel.d, qty, FALSE)

\* scan_once from the engines' answer sel on: post-draft proximity check,
\* approval (the traded 5m bar is remembered here), sizing, creation.
\* Inputs that cannot change the outcome of the scan are held at one value.
scan_decide(inp, qty, t2, ex, sel) ==
    LET d      == sel.d
        now_ts == Tf5Ts(now)
        sized  == d.entry > 0 /\ d.sl > 0
        tid    == Len(trades) + 1
    IN  /\ inp.hm # <<>> => sel.blocked
        /\ inp.raw_taser # "NONE" =>
               sel # scan_select([inp EXCEPT !.raw_taser = "NONE"], ts_last, trades, now)
        /\ ts_last' = sel.mem
        /\ IF \/ d.side = "NONE"
              \/ _gate_reentry(now_ts, inp.price, d.side, trades, last_traded_bar_ts, now)
                     = "price too close to last entry (BLOCK_REENTRY_PCT)"
           THEN /\ qty = 0 /\ t2 = now /\ ex = ExAllOk
                /\ tags' = sel.tags \cup (IF d.side = "NONE" THEN {} ELSE {"REENTRY_BLOCK"})
                /\ op' = [name |-> "scan_once", t0 |-> now, inp |-> inp, tid |-> 0, side |-> d.side]
                /\ pc' = "sleep_scan"
                /\ UNCHANGED <<now, trades, orders, last_traded_bar_ts, mgr, sl_held>>
           ELSE IF ~sized \/ qty <= 0
           THEN /\ t2 = now /\ ex = ExAllOk /\ (~sized => qty = 0)
                /\ tags' = sel.tags \cup {"RULE_APPROVED", "APPROVED"}
                           \cup (IF sized THEN {"SIZE_ZERO"} ELSE {"SKIP_SIZE_NO_EDGE"})
                /\ last_traded_bar_ts' = now_ts
                /\ op' = [name |-> "scan_once", t0 |-> now, inp |-> inp, tid |-> 0, side |-> d.side]
                /\ pc' = "sleep_scan"
                /\ UNCHANGED <<now, trades, orders, mgr, sl_held>>
           ELSE \E pb \in { place_bracket(orders, tid, d, dry_run, ex) } :
                  scan_create(inp, sel, qty, t2, tid, pb)

\* scan_once past the single-position check: pre-draft gate, engines with
\* the heatmap gate, then the decision
scan_main_on(raws_ts, raws_taser, with_hm) ==
    /\ pc = "scan"
    /\ Len(trades) < MaxTrades
    /\ ~(SINGLE_POSITION_MODE /\ has_open_trade(trades))
    /\ _gate_reentry(Tf5Ts(now), PinPrice(trades), "NONE", trades, last_traded_bar_ts, now) = ""
    /\ \E price \in ScanPrices(trades), raw_ts \in raws_ts, raw_taser \in raws_taser :
       \E hm \in (IF with_hm THEN HeatMaps(price) ELSE {<<>>}), qty \in Qtys,
          t2 \in Within(now, 500),
          ex \in (IF dry_run THEN {ExAllOk} ELSE ScanExAnswers) :
         LET inp == [price |-> price, raw_ts |-> raw_ts, raw_taser |-> raw_taser,
                     bar |-> now, hm |-> hm]
         IN  \E sel \in { scan_select(inp, ts_last, trades, now) } :
               scan_decide(inp, qty, t2, ex, sel)
    /\ UNCHANGED <<boots, dry_run>>

\* the scan against every answer of the engines and every heatmap
scan_main == scan_main_on(RawSignals, RawSignals, TRUE)

scan_once == scan_early \/ scan_main

\* the scheduler loop's sleeps: SCAN_INTERVAL_SECONDS after an idle scan,
\* five seconds after a scan or manager that raised
scheduler_sleep ==
    /\ pc \in {"sleep_scan", "sleep_err"}
    /\ \E u \in SleepEnd(now, IF pc = "sleep_scan" THEN SCAN_INTERVAL_SECONDS ELSE ERROR_SLEEP_SECONDS) :
         now' = u
    /\ pc' = "scan"
    /\ op' = [name |-> "sleep"]
    /\ tags' = {}
    /\ UNCHANGED <<dry_run, trades, orders, last_traded_bar_ts, ts_last, mgr, sl_held, boots>>

\* the process dies and is started again a clock step later: the tables
\* survive, everything the task held in memory is gone, and run_scheduler
\* begins with recovery
restart ==
    /\ pc # "boot"
    /\ boots < MaxBoots
    /\ boots' = boots + 1
    /\ \E u \in SleepEnd(now, 1) : now' = u
    /\ pc' = "boot"
    /\ last_traded_bar_ts' = 0
    /\ ts_last' = NoTsMem
    /\ mgr' = NoMgr
    /\ op' = [name |-> "restart"]
    /\ tags' = {}
    /\ UNCHANGED <<dry_run, trades, orders, sl_held>>
\* ------------------------------------------------- recover_open_trades
\* scheduler._Draft rebuilt from a trade row; the engine is the row's
_Draft(row) == [side |-> row.side, entry |-> row.entry, sl |-> row.sl, tps |-> row.tps,
                engine |-> row.engine]

\* The 1m series the recovery fetch may return for an open trade: at most
\* MaxBars1m bars out of the minute the trade was created in and the next
\* one, each either touching the stored stop or staying clear of it.
MinuteOf(t) == (t \div Bar1Ms) * Bar1Ms
Bar1m(row, ts, touch) ==
    IF row.side = "LONG"
    THEN [ts |-> ts, high |-> row.entry + PX(5),
          low |-> IF touch THEN row.sl ELSE row.sl + PX(10)]
    ELSE [ts |-> ts, low |-> row.entry - PX(5),
          high |-> IF touch THEN row.sl ELSE row.sl - PX(10)]
Tf1mSeries(row) ==
    LET b0 == MinuteOf(row.created_ts)
        one == { <<Bar1m(row, ts, h)>> : ts \in {b0, b0 + Bar1Ms}, h \in BOOLEAN }
        two == { <<Bar1m(row, b0, h0), Bar1m(row, b0 + Bar1Ms, h1)>> : h0 \in BOOLEAN, h1 \in BOOLEAN }
    IN  {<<>>} \cup one \cup (IF MaxBars1m >= 2 THEN two ELSE {})

\* idx0: the first bar at or after the trade's creation (0 = none)
recover_idx0(tf1m, created) ==
    IF \E i \in 1..Len(tf1m) : tf1m[i].ts >= created
    THEN CHOOSE i \in 1..Len(tf1m) : /\ tf1m[i].ts >= created
                                     /\ \A j \in 1..(i - 1) : tf1m[j].ts < created
    ELSE 0

\* hit: some bar from idx0 on touched the stored stop
recover_hit(tf1m, row) ==
    LET i0 == recover_idx0(tf1m, row.created_ts)
    IN  /\ i0 # 0
        /\ \E i \in i0..Len(tf1m) :
              _candle_sl_hit(row.side = "LONG", tf1m[i].high, tf1m[i].low, row.sl)

\* close every trade of the set at its stored stop
RECURSIVE recover_close(_, _, _)
recover_close(T, hits, t) ==
    IF hits = {} THEN T
    ELSE LET i == CHOOSE x \in hits : \A y \in hits : x <= y
         IN  recover_close(close_trade(T, i, T[i].sl, "CLOSED_SL_RECOVERED", t), hits \ {i}, t)

\* recover_open_trades followed by run_scheduler's choice of what to resume
recover_open_trades ==
    /\ pc = "boot"
    /\ LET opens == list_open_trades(trades) IN
       IF opens = {}
       THEN /\ tags' = {"NO_OPEN"}
            /\ op' = [name |-> "recover_open_trades", opens |-> {}, tf1m |-> <<>>]
            /\ pc' = "scan"
            /\ UNCHANGED <<trades, mgr>>
       ELSE \E tf1m \in Tf1mSeries(trades[CHOOSE i \in opens : \A j \in opens : i <= j]) :
            LET hits == { i \in opens : recover_hit(tf1m, trades[i]) }
                rest == { i \in opens : ~recover_hit(tf1m, trades[i]) }
                T2   == recover_close(trades, hits, now)
                to_resume == IF rest = {} THEN 0 ELSE CHOOSE i \in rest : \A j \in rest : j <= i
                resume == IF hits # {} THEN get_open_trade(T2) ELSE to_resume
            IN  /\ op' = [name |-> "recover_open_trades", opens |-> opens, tf1m |-> tf1m]
                /\ IF tf1m = <<>>
                   THEN /\ tags' = {"NO_1M"}
                        /\ pc' = "scan"
                        /\ UNCHANGED <<trades, mgr>>
                   ELSE /\ trades' = T2
                        /\ tags' = (IF hits # {} THEN {"CLOSED_SL"} ELSE {})
                                   \cup (IF \E i \in opens : recover_idx0(tf1m, trades[i].created_ts) = 0
                                         THEN {"NO_POST_CREATE_CANDLES"} ELSE {})
                        /\ IF resume # 0
                           THEN /\ pc' = "manage_start"
                                /\ mgr' = StartMgr(resume, _Draft(T2[resume]), T2[resume].qty, TRUE)
                           ELSE /\ pc' = "scan" /\ mgr' = mgr
    /\ UNCHANGED <<now, dry_run, orders, last_traded_bar_ts, ts_last, sl_held, boots>>
\* ------------------------------------------------ components/guards.py
FEES_PCT_PAD               == 10
SL_MIN_GAP_PCT             == 12
SL_MIN_GAP_ATR_MULT        == 35
TS_SL_MIN_BUFFER_ATR       == 45
SL_TIGHTEN_COOLDOWN_SEC    == 55
GLOBAL_NO_TRAIL_BEFORE_TP1 == FALSE
TRENDSCALP_PAUSE_ABS_LOCKS == TRUE
LOCK_NEVER_WORSE_THAN_BE   == TRUE

\* entry plus/minus the fee pad: the break-even line
be_price(is_long, entry) ==
    IF is_long THEN entry + BP(entry, FEES_PCT_PAD) ELSE entry - BP(entry, FEES_PCT_PAD)

\* be_floor
be_floor(sl_new, is_long, entry) ==
    IF is_long THEN Max2(sl_new, be_price(is_long, entry))
               ELSE Min2(sl_new, be_price(is_long, entry))

\* a _min_gap_px that knows the percent gap only
_min_gap_px_pct_only(price, entry, atr) ==
    BP(IF price # 0 THEN price ELSE IF entry # 0 THEN entry ELSE PX(100), SL_MIN_GAP_PCT)

\* _min_gap_px: the largest of the percent gap, the ATR gap and the ATR
\* buffer (the 1e-6 floor is below the price resolution and never binds)
_min_gap_px(price, entry, atr) ==
    LET base  == IF price # 0 THEN price ELSE IF entry # 0 THEN entry ELSE PX(100)
        g_pct == BP(base, SL_MIN_GAP_PCT)
        g_atr == PCT(atr, SL_MIN_GAP_ATR_MULT)
        g_buf == PCT(atr, TS_SL_MIN_BUFFER_ATR)
    IN  Max2(g_pct, Max2(g_atr, g_buf))

\* a guard_sl that tightens one price tick further on every call
guard_sl_nudge(sl_candidate, sl_current, is_long, price, entry, atr, hit_tp1, allow_be) ==
    LET freeze_all == GLOBAL_NO_TRAIL_BEFORE_TP1 \/ TRENDSCALP_PAUSE_ABS_LOCKS
        mg         == _min_gap_px(price, entry, atr)
        sl_target  == IF allow_be THEN be_floor(sl_candidate, is_long, entry) ELSE sl_candidate
    IN  IF ~hit_tp1 /\ freeze_all /\ ~allow_be THEN sl_current
        ELSE IF is_long THEN Max2(sl_current, Min2(sl_target, price - mg)) + 10
        ELSE Min2(sl_current, Max2(sl_target, price + mg)) - 10

\* guard_sl: pre-TP1 freeze, optional BE floor, min-gap clamp around the
\* price, tighten-only against the current stop
guard_sl(sl_candidate, sl_current, is_long, price, entry, atr, hit_tp1, allow_be) ==
    LET freeze_all == GLOBAL_NO_TRAIL_BEFORE_TP1 \/ TRENDSCALP_PAUSE_ABS_LOCKS
        mg         == _min_gap_px(price, entry, atr)
        sl_target  == IF allow_be THEN be_floor(sl_candidate, is_long, entry) ELSE sl_candidate
    IN  IF ~hit_tp1 /\ freeze_all /\ ~allow_be THEN sl_current
        ELSE IF is_long THEN Max2(sl_current, Min2(sl_target, price - mg))
        ELSE Min2(sl_current, Max2(sl_target, price + mg))
\* ------------------------------------------------------ manage/flow.py
TS_GIVEBACK_ARM_R == 120
TS_GIVEBACK_FRAC  == 40

\* a giveback_exit that does not look at the ML slope
giveback_exit_any_slope(mfe, gain, R, ml_slope) ==
    /\ mfe * 100 >= TS_GIVEBACK_ARM_R * R
    /\ gain * 100 <= (100 - TS_GIVEBACK_FRAC) * mfe

\* giveback_exit(mfe_r, curr_r, ml_slope) with mfe_r = mfe / R and
\* curr_r = gain / R, cleared of the division by R
giveback_exit(mfe, gain, R, ml_slope) ==
    /\ mfe * 100 >= TS_GIVEBACK_ARM_R * R
    /\ ml_slope < 0
    /\ gain * 100 <= (100 - TS_GIVEBACK_FRAC) * mfe
\* -------------------------------------- runners/trendscalp_runner.py
TS_MILESTONE_MODE    == TRUE
TS_MS_STEP_R         == 50
TS_MS_LOCK_DELTA_R   == 25
TS_TP2_LOCK_FRACR    == 70
TS_POST_TP2_ATR_MULT == 50
TS_REGIME_AUTO       == TRUE
TS_ADX_UP            == 26
TS_ADX_DN            == 23
TS_ATR_UP            == 40
TS_ATR_DN            == 35
TS_CHECK_POS_EVERY_S == 10
SCALP_ABS_LOCK_USD   == PX(50)
SL_CLOSE_CONFIRM_BARS == 0
TP_HIT_CONFIRM_BARS   == 0
PEV_ENABLED            == TRUE
PEV_USE_1M_CONFIRM     == TRUE
PEV_REQUIRE_EMA_SIDE   == TRUE
PEV_REQUIRE_CLOSE_CONF == TRUE
PEV_HARD_ADX_DELTA     == 1
PEV_HARD_ATR_MULT      == 90
PEV_GRACE_BARS_5M      == 2
PEV_GRACE_MIN_S        == 300

\* a post_entry_validity that reports an exhausted grace window as hard
post_entry_validity_timeout_hard(price, adx, atr_px, ema_side_ok, conf_bad, pe, t) ==
    LET soft == adx <= TS_ADX_DN \/ price <= 0 \/ atr_px * 10000 <= TS_ATR_DN * price
        since == IF pe.warn_since # 0 THEN pe.warn_since ELSE t
        grace == Max2(PEV_GRACE_MIN_S, PEV_GRACE_BARS_5M * 300) * 1000
    IN  IF soft /\ t - since >= grace
        THEN [state |-> "EXIT", hard |-> TRUE, pe |-> [state |-> "EXIT", warn_since |-> 0]]
        ELSE IF soft
        THEN [state |-> "WARN", hard |-> FALSE, pe |-> [state |-> "WARN", warn_since |-> since]]
        ELSE [state |-> "OK", hard |-> FALSE,
              pe |-> IF pe.state = "WARN" THEN [state |-> "OK", warn_since |-> 0] ELSE pe]

\* guards.post_entry_validity: the continuation check before TP1.  pe is
\* meta['pe_guard'] as [state, warn_since] (warn_since 0 = unset), conf_bad
\* the 1m micro-confirm (FALSE when feats_1m is None), ema_side_ok TRUE when
\* the features carry no EMA200.  The diagnostics always carry 'hard'.
\* (Bar closes are whole cents, so price \div 1000 is exact.)
post_entry_validity(price, adx, atr_px, ema_side_ok, conf_bad, pe, t) ==
    LET soft == adx <= TS_ADX_DN \/ price <= 0 \/ atr_px * 10000 <= TS_ATR_DN * price
        hard == /\ adx <= TS_ADX_DN - PEV_HARD_ADX_DELTA
                /\ (price <= 0
                    \/ atr_px * 1000 <= TS_ATR_DN * PEV_HARD_ATR_MULT * (price \div 1000))
                /\ (~PEV_REQUIRE_EMA_SIDE \/ ~ema_side_ok)
                /\ (~PEV_REQUIRE_CLOSE_CONF \/ conf_bad)
        since == IF pe.warn_since # 0 THEN pe.warn_since ELSE t
        grace == Max2(PEV_GRACE_MIN_S, PEV_GRACE_BARS_5M * 300) * 1000
    IN  IF hard THEN [state |-> "EXIT", hard |-> TRUE, pe |-> [state |-> "EXIT", warn_since |-> 0]]
        ELSE IF soft /\ t - since >= grace
        THEN [state |-> "EXIT", hard |-> FALSE, pe |-> [state |-> "EXIT", warn_since |-> 0]]
        ELSE IF soft
        THEN [state |-> "WARN", hard |-> FALSE, pe |-> [state |-> "WARN", warn_since |-> since]]
        ELSE [state |-> "OK", hard |-> FALSE,
              pe |-> IF pe.state = "WARN" THEN [state |-> "OK", warn_since |-> 0] ELSE pe]

\* variant of ts_regime whose downgrade band reaches up to the upgrade
\* thresholds
ts_regime_overlap(last_regime, adx, atr5, px) ==
    LET up == adx >= TS_ADX_UP /\ px > 0 /\ atr5 * 10000 >= TS_ATR_UP * px
        dn == adx <= TS_ADX_UP \/ px <= 0 \/ atr5 * 10000 <= TS_ATR_UP * px
    IN  IF last_regime = "RUNNER" THEN (IF dn THEN "CHOP" ELSE "RUNNER")
        ELSE (IF up THEN "RUNNER" ELSE "CHOP")

\* the regime decision with hysteresis on the previous regime
ts_regime(last_regime, adx, atr5, px) ==
    LET up == adx >= TS_ADX_UP /\ px > 0 /\ atr5 * 10000 >= TS_ATR_UP * px
        dn == adx <= TS_ADX_DN \/ px <= 0 \/ atr5 * 10000 <= TS_ATR_DN * px
    IN  IF last_regime = "RUNNER" THEN (IF dn THEN "CHOP" ELSE "RUNNER")
        ELSE (IF up THEN "RUNNER" ELSE "CHOP")

\* the milestone stop candidate of one tick and the milestone count after it
ts_milestone(m, px, atr5) ==
    LET is_long == m.side = "LONG"
        tight(a, b) == IF is_long THEN Max2(a, b) ELSE Min2(a, b)
        away(base, d) == IF is_long THEN base + d ELSE base - d
        be      == be_price(is_long, m.entry)
        step_px == PCT(m.R_init, TS_MS_STEP_R)
        prog    == IF is_long THEN px - m.tps[1] ELSE m.tps[1] - px
        k       == IF prog > 0 /\ step_px > 0 THEN prog \div step_px ELSE 0
        c_be    == tight(m.sl, be)
        tp2d    == Abs(m.tps[2] - m.entry)
        c_tp2   == IF m.R_init > 0 THEN tight(m.sl, away(m.entry, PCT(tp2d, TS_TP2_LOCK_FRACR)))
                   ELSE m.sl
    IN  IF ~m.hit_tp1
        THEN [sl |-> IF SCALP_ABS_LOCK_USD > 0 /\ m.mfe_abs >= SCALP_ABS_LOCK_USD
                     THEN c_be ELSE m.sl,
              k |-> m.last_ms_k]
        ELSE IF ~m.hit_tp2
        THEN IF m.R_init > 0 /\ step_px > 0 /\ k > m.last_ms_k
             THEN [sl |-> tight(c_be, away(m.entry, k * PCT(m.R_init, TS_MS_LOCK_DELTA_R))), k |-> k]
             ELSE [sl |-> c_be, k |-> m.last_ms_k]
        ELSE [sl |-> IF atr5 > 0
                     THEN tight(c_tp2, away(px, 0 - PCT(atr5, TS_POST_TP2_ATR_MULT)))
                     ELSE c_tp2,
              k |-> m.last_ms_k]
\* the locals run_trendscalp_manage / surveil_loop start from (resumed is
\* the caller's position in run_scheduler, carried along)
MgrInit(tid, d, qty, resumed) ==
    [tid |-> tid, resumed |-> resumed, engine |-> d.engine, side |-> d.side, entry |-> d.entry, sl |-> d.sl,
     tps |-> d.tps, qty |-> qty, R_init |-> Abs(d.entry - d.sl),
     hit_tp1 |-> FALSE, hit_tp2 |-> FALSE, last_regime |-> "NONE",
     had_runner_since_entry |-> FALSE, last_ms_k |-> 0, mfe_abs |-> 0,
     last_sl_move_ts |-> 0, px |-> 0, tp_moves |-> 0, ticks |-> 0,
     pe_guard |-> [state |-> "NONE", warn_since |-> 0]]

\* 1m bars a manager tick may see, as <<favourable extreme, adverse extreme,
\* close>> in cents from entry, counted in the trade's direction
BarShapes == { <<30, 20, 25>>, <<-80, -100, -90>>, <<60, 0, 5>>, <<70, 50, 65>>,
               <<125, 110, 120>> }
ShapeBar(m, sh) ==
    IF m.side = "LONG"
    THEN [high |-> m.entry + PX(sh[1]), low |-> m.entry + PX(sh[2]), close |-> m.entry + PX(sh[3])]
    ELSE [low |-> m.entry - PX(sh[1]), high |-> m.entry - PX(sh[2]), close |-> m.entry - PX(sh[3])]

\* what the candles handed to compute_indicators carry: their ADX(14) and
\* their 5m ATR (0 when the ATR recompute fails)
Tapes == { [adx |-> 0, atr |-> 0], [adx |-> 30, atr |-> PX(50)] }

\* scheduler.compute_indicators, the callable the scheduler hands the
\* manager: atr5 is recomputed from the 5m candles, adx14 is the literal 0.0
compute_indicators(tape) == [adx14 |-> 0, atr5 |-> tape.atr]

\* indicator snapshots of scheduler.compute_indicators
Feats == { compute_indicators(tape) : tape \in Tapes }

\* TP ladders the FSM / flow proposal may answer with: the present one, or
\* one moved a notch further out
TpProposals(m) ==
    { m.tps } \cup
    (IF m.tp_moves < MaxTpMoves
     THEN { [k \in 1..Len(m.tps) |-> IF m.side = "LONG" THEN m.tps[k] + PX(10) ELSE m.tps[k] - PX(10)] }
     ELSE {})

\* the helpers execution.py looks up on the db module with getattr before
\* using them, and the ones among them db.py defines: none
DbLookups == { "get_orders", "get_position", "close_position", "set_position_qty",
               "update_order_status", "cancel_open_orders" }
DbDefined == {}

\* order kinds whose name starts with "take_profit"
TakeProfitKinds == { "take_profit_1", "take_profit_2", "take_profit_final" }
TP_EXISTS_TOL   == 50           \* _tp_exists_at's tol, 0.0005
TS_PARTIAL_TP1  == 50           \* percent

\* _tp_exists_at: an open or filled take-profit row within tol of px among
\* the rows _get_orders_safe answers
_tp_exists_at(O, tid, px) ==
    LET seen == _get_orders_safe(O, tid)
    IN  \E i \in 1..Len(seen) :
            /\ seen[i].typ \in TakeProfitKinds
            /\ seen[i].status \in {"open", "filled"}
            /\ Abs(seen[i].price - px) <= TP_EXISTS_TOL

\* _remaining_qty: the position's qty when db.get_position exists and
\* answers a positive one, else the caller's hint
_remaining_qty(tid, default_qty) == default_qty

\* the paper bookkeeping of exit_remainder_market: close the position row
\* through db.close_position or db.set_position_qty, cancel the open
\* protective rows through db.update_order_status (over the rows
\* _get_orders_safe answers) or db.cancel_open_orders; each only if db has it
paper_cancel_orders(O, tid) ==
    LET seen == _get_orders_safe(O, tid)
        hit(o) == \/ o.status = "open" /\ o.typ = "stop_loss"
                  \/ o.typ \in TakeProfitKinds
    IN  IF "update_order_status" \in DbDefined
        THEN [i \in 1..Len(O) |->
                 IF O[i].tid = tid /\ (\E k \in 1..Len(seen) : seen[k] = O[i]) /\ hit(O[i])
                 THEN [O[i] EXCEPT !.status = "canceled"] ELSE O[i]]
        ELSE IF "cancel_open_orders" \in DbDefined
        THEN [i \in 1..Len(O) |->
                 IF O[i].tid = tid /\ O[i].status = "open"
                 THEN [O[i] EXCEPT !.status = "canceled"] ELSE O[i]]
        ELSE O

\* exit_remainder_market.  Result: the orders table, whether an order id
\* was returned, the telemetry tags.  The live fill price is the venue's
\* "average", held at 0.
exit_remainder_market(O, tid, qty_hint, dry, ex_ok) ==
    IF _remaining_qty(tid, qty_hint) <= 0
    THEN [orders |-> O, oid |-> FALSE, tags |-> {"EXIT_REMAINDER_SKIP"}]
    ELSE IF dry
    THEN [orders |-> paper_cancel_orders(add_order(O, tid, "market_exit", 0, "filled"), tid),
          oid |-> TRUE, tags |-> {"EXIT_REMAINDER_PAPER", "PAPER_POS_CLOSED"}]
    ELSE IF ex_ok
    THEN [orders |-> add_order(O, tid, "market_exit", 0, "filled"), oid |-> TRUE,
          tags |-> {"EXIT_REMAINDER_LIVE"}]
    ELSE [orders |-> O, oid |-> FALSE, tags |-> {"EXIT_REMAINDER_ERROR"}]

\* ensure_partial_tp1: a reduce-only order for fraction (percent) of the
\* remaining qty at the signal's TP1, unless a take-profit row is seen at
\* that price.  Result as for exit_remainder_market.
ensure_partial_tp1(O, tid, sig, fraction, qty_hint, dry, ex_ok) ==
    LET tp1  == Round4(sig.tps[1])
        frac == Max2(0, Min2(100, fraction))
    IN  IF sig.tps = <<>>
        THEN [orders |-> O, oid |-> FALSE, tags |-> {"PARTIAL_TP1_SKIP"}]
        ELSE IF frac <= 0
        THEN [orders |-> O, oid |-> FALSE, tags |-> {"PARTIAL_TP1_SKIP"}]
        ELSE IF _tp_exists_at(O, tid, tp1)
        THEN [orders |-> O, oid |-> FALSE, tags |-> {"PARTIAL_TP1_EXISTS"}]
        ELSE IF _remaining_qty(tid, qty_hint) * frac <= 0
        THEN [orders |-> O, oid |-> FALSE, tags |-> {"PARTIAL_TP1_SKIP"}]
        ELSE IF dry
        THEN [orders |-> add_order(O, tid, "take_profit_1", tp1, "open"), oid |-> TRUE,
              tags |-> {"PARTIAL_TP1_PAPER"}]
        ELSE IF ex_ok
        THEN [orders |-> add_order(O, tid, "take_profit_1", tp1, "open"), oid |-> TRUE,
              tags |-> {"PARTIAL_TP1_LIVE"}]
        ELSE [orders |-> O, oid |-> FALSE, tags |-> {"PARTIAL_TP1_ERROR"}]

\* a flatten that sends nothing and closes nothing
ts_flatten_skip(T, O, tid, px, dry, ex_ok, t) == [trades |-> T, orders |-> O]

\* a market flatten by the trendscalp manager: the order goes out; in paper
\* mode the still-open trade is closed in the DB at the tick's price
ts_flatten(T, O, tid, px, dry, ex_ok, t) ==
    [trades |-> IF dry /\ get_open_trade(T) = tid THEN close_trade(T, tid, px, "CLOSED_PEV", t) ELSE T,
     orders |-> exit_remainder_market(O, tid, T[tid].qty, dry, ex_ok).orders]

\* The run_trendscalp_manage loop body past the 1m fetch, for a tick at time
\* t, stage by stage.  The post-entry validity guard is asked without 1m
\* features while PEV_REQUIRE_CLOSE_CONF is set, so it never reports a hard
\* invalidation and ends no trade; the risk gate reads a counter nothing
\* increments and never blocks.

\* last stage: giveback exit, TP1/TP2 recognition with the CHOP exit at TP1
\* and the RUNNER partial, the RUNNER->CHOP flip exit.  m4 holds the locals
\* after the stop and the TP ladder were updated.
ts_tick_exits(m, inp, t, dry, T, O, bar, m4, sltags) ==
    LET is_long == m.side = "LONG"
        px      == bar.close
        regime  == m4.last_regime
        gain    == IF is_long THEN px - m.entry ELSE m.entry - px
        gb      == m.R_init > 0 /\ giveback_exit(m4.mfe_abs, gain, m.R_init, inp.ml_slope)
        reach(tp) == IF is_long THEN bar.high >= tp ELSE bar.low <= tp
        tp1_now == ~m.hit_tp1 /\ reach(m4.tps[1])
        hit1    == m.hit_tp1 \/ tp1_now
        chop1   == tp1_now /\ TS_REGIME_AUTO /\ regime = "CHOP"
        part1   == tp1_now /\ TS_REGIME_AUTO /\ regime = "RUNNER"
        tp2_now == hit1 /\ ~m.hit_tp2 /\ reach(m4.tps[2])
        hit2    == m.hit_tp2 \/ tp2_now
        flip    == TS_REGIME_AUTO /\ ~hit2 /\ m4.had_runner_since_entry
                   /\ regime = "CHOP" /\ hit1
        O1      == IF part1
                   THEN ensure_partial_tp1(O, m.tid, _Draft(T[m.tid]), TS_PARTIAL_TP1, m.qty,
                                           dry, inp.ex_ok).orders
                   ELSE O
        t1      == IF part1 THEN {"TP1_PARTIAL_ENSURE"} ELSE {}
    IN  IF gb
        THEN [mgr |-> m4, trades |-> ts_flatten(T, O, m.tid, px, dry, inp.ex_ok, t).trades,
              orders |-> ts_flatten(T, O, m.tid, px, dry, inp.ex_ok, t).orders,
              tags |-> sltags \cup {"GIVEBACK_FLATTEN"}, done |-> TRUE]
        ELSE IF chop1
        THEN [mgr |-> [m4 EXCEPT !.hit_tp1 = hit1],
              trades |-> ts_flatten(T, O, m.tid, px, dry, inp.ex_ok, t).trades,
              orders |-> ts_flatten(T, O, m.tid, px, dry, inp.ex_ok, t).orders,
              tags |-> sltags \cup {"TP1_CHOP_EXIT_PENDING", "TP1_CHOP_EXIT_CONFIRMED"},
              done |-> TRUE]
        ELSE IF flip
        THEN [mgr |-> [m4 EXCEPT !.hit_tp1 = hit1, !.hit_tp2 = hit2],
              trades |-> ts_flatten(T, O1, m.tid, px, dry, inp.ex_ok, t).trades,
              orders |-> ts_flatten(T, O1, m.tid, px, dry, inp.ex_ok, t).orders,
              tags |-> sltags \cup t1 \cup {"FLIP_RUNNER_TO_CHOP_EXIT_PENDING",
                                            "FLIP_RUNNER_TO_CHOP_EXIT_CONFIRMED"},
              done |-> TRUE]
        ELSE [mgr |-> [m4 EXCEPT !.hit_tp1 = hit1, !.hit_tp2 = hit2],
              trades |-> T, orders |-> O1, tags |-> sltags \cup t1, done |-> FALSE]

\* middle stage: the guarded stop sl_fin is applied when it improves on the
\* held stop and the tighten cooldown has passed; the milestone count k is
\* kept either way; then the TP ladder proposal is taken
ts_tick_apply(m, inp, t, dry, T, O, bar, m2, k, sl_fin, pevtags) ==
    LET better == IF m.side = "LONG" THEN sl_fin > m.sl ELSE sl_fin < m.sl
        cool   == t - m.last_sl_move_ts >= SL_TIGHTEN_COOLDOWN_SEC * 1000
        sltags == pevtags \cup (IF better /\ ~cool THEN {"SL_COOLDOWN_SKIP"} ELSE {})
                  \cup (IF better /\ cool THEN {"SL_REPLACED"} ELSE {})
                  \cup (IF m2.last_regime # m.last_regime THEN {"REGIME"} ELSE {})
    IN  The({ ts_tick_exits(m, inp, t, dry, T, O, bar, m4, sltags) :
              m4 \in { [m2 EXCEPT !.last_ms_k = k,
                                  !.sl = IF better /\ cool THEN sl_fin ELSE @,
                                  !.last_sl_move_ts = IF better /\ cool THEN t ELSE @,
                                  !.tps = inp.tps,
                                  !.tp_moves = IF inp.tps # m.tps THEN @ + 1 ELSE @] } })

\* the milestone candidate ms goes through guard_sl, called without the BE
\* floor
ts_tick_guard(m, inp, t, dry, T, O, bar, m2, ms, pevtags) ==
    The({ ts_tick_apply(m, inp, t, dry, T, O, bar, m2, ms.k, sl_fin, pevtags) :
          sl_fin \in { guard_sl(ms.sl, m.sl, m.side = "LONG", bar.close, m.entry,
                                inp.feats.atr5, m.hit_tp1, FALSE) } })

\* the post-entry validity guard, before TP1 only: post_entry_validity is
\* called with feats_1m = None and its answer pev always carries 'hard', so
\* is_hard_invalidation (the EMA200 flip and swing break inp.hard_break
\* stands for) is never consulted; an EXIT that is not hard is downgraded
ts_tick_pev(m, inp, t, dry, T, O, bar, m2, pev) ==
    LET on == PEV_ENABLED /\ ~m.hit_tp1
        m3 == IF on THEN [m2 EXCEPT !.pe_guard = pev.pe] ELSE m2
    IN  IF on /\ pev.state = "EXIT" /\ pev.hard
        THEN [mgr |-> m3, trades |-> ts_flatten(T, O, m.tid, bar.close, dry, inp.ex_ok, t).trades,
              orders |-> ts_flatten(T, O, m.tid, bar.close, dry, inp.ex_ok, t).orders,
              tags |-> {"PEV_EXIT"}, done |-> TRUE]
        ELSE The({ ts_tick_guard(m, inp, t, dry, T, O, bar, m3, ms,
                       IF ~on THEN {}
                       ELSE IF pev.state = "EXIT" THEN {"PEV_DOWNGRADED"}
                       ELSE IF pev.state = "WARN" /\ m.pe_guard.state # "WARN" THEN {"PEV_WARN"}
                       ELSE IF pev.state = "OK" /\ m.pe_guard.state = "WARN" THEN {"PEV_OK"}
                       ELSE {}) :
                   ms \in { ts_milestone(m3, bar.close, inp.feats.atr5) } })

\* a confirmation that counts only the newest close
_confirm_sl_breach_last(need_bars, is_long, sl_level, closes, raised) ==
    IF raised THEN TRUE
    ELSE IF need_bars <= 0 THEN TRUE
    ELSE IF Len(closes) < 1 THEN FALSE
    ELSE IF is_long THEN closes[Len(closes)] <= sl_level
    ELSE closes[Len(closes)] >= sl_level

\* surveillance._confirm_sl_breach: the last need_bars closes of a fresh 1m
\* fetch are all at or beyond the stop; too few closes do not confirm, an
\* exception on the way confirms
_confirm_sl_breach(need_bars, is_long, sl_level, closes, raised) ==
    IF raised THEN TRUE
    ELSE IF need_bars <= 0 THEN TRUE
    ELSE IF Len(closes) < need_bars THEN FALSE
    ELSE \A i \in (Len(closes) - need_bars + 1)..Len(closes) :
             IF is_long THEN closes[i] <= sl_level ELSE closes[i] >= sl_level

\* the closes of the confirmation fetch as prices: conf.closes holds them in
\* cents from entry, counted in the trade's direction
ConfCloses(m, conf) ==
    [i \in 1..Len(conf.closes) |->
        IF m.side = "LONG" THEN m.entry + PX(conf.closes[i]) ELSE m.entry - PX(conf.closes[i])]

\* a stop touch waits when SL_CLOSE_CONFIRM_BARS (conf.need) is positive and
\* the breach is not confirmed
ts_sl_wait(m, conf) ==
    /\ conf.need > 0
    /\ ~_confirm_sl_breach(conf.need, m.side = "LONG", m.sl, ConfCloses(m, conf), conf.raised)

\* the tick's result with the telemetry of a waiting stop touch
ts_wait_logged(r, wait) ==
    [r EXCEPT !.tags = @ \cup (IF wait THEN {"SL_TOUCH_WAIT_CONFIRM"} ELSE {})]

\* first stage, on the tick's 1m bar: excursion, the stop-touch exit, the
\* regime; m2 holds the locals after them
ts_tick_bar(m, inp, t, dry, T, O, bar, m2) ==
    IF /\ _candle_sl_hit(m.side = "LONG", bar.high, bar.low, m.sl)
       /\ ~ts_sl_wait(m, inp.conf)
    THEN [mgr |-> [m EXCEPT !.mfe_abs = m2.mfe_abs, !.px = bar.close],
          trades |-> close_trade(T, m.tid, m.sl, "CLOSED_SL", t),
          orders |-> O, tags |-> {"CLOSED"}, done |-> TRUE]
    ELSE The({ ts_wait_logged(
                   ts_tick_pev(m, inp, t, dry, T, O, bar, m2, pev),
                   _candle_sl_hit(m.side = "LONG", bar.high, bar.low, m.sl)) :
               pev \in { post_entry_validity(bar.close, inp.feats.adx14, inp.feats.atr5,
                                             TRUE, FALSE, m.pe_guard, t) } })

\* the locals after the excursion and regime updates of a tick on bar
ts_tick_locals(m, inp, bar, regime) ==
    LET fav == IF m.side = "LONG" THEN bar.high - m.entry ELSE m.entry - bar.low
    IN  [m EXCEPT !.mfe_abs = Max2(@, Max2(0, fav)),
                  !.px = bar.close,
                  !.last_regime = regime,
                  !.had_runner_since_entry = @ \/ regime = "RUNNER"]

ts_tick(m, inp, t, dry, T, O) ==
    The({ The({ ts_tick_bar(m, inp, t, dry, T, O, bar, m2) :
                m2 \in { ts_tick_locals(m, inp, bar,
                                        ts_regime(m.last_regime, inp.feats.adx14,
                                                  inp.feats.atr5, bar.close)) } }) :
          bar \in { ShapeBar(m, inp.shape) } })
\* ---------------------------------------------------- surveillance.py

\* _min_sl_gap: the percent gap or the ATR gap, whichever is larger
_min_sl_gap(px, entry, atr) ==
    LET base == IF px # 0 THEN px ELSE IF entry # 0 THEN entry ELSE PX(100)
    IN  Max2(PCT(atr, SL_MIN_GAP_ATR_MULT), BP(base, SL_MIN_GAP_PCT))

\* _apply_be_floor: after TP1 the stop is never worse than break-even
_apply_be_floor(sl_new, is_long, entry, hit_tp1) ==
    IF ~hit_tp1 \/ ~LOCK_NEVER_WORSE_THAN_BE THEN sl_new ELSE be_floor(sl_new, is_long, entry)

\* _apply_abs_lock: once the excursion reached the lock, the stop is floored
\* at entry + lock + fees, short of the price
_apply_abs_lock(sl_new, is_long, entry, px, mfe_abs, lock) ==
    LET floor == IF is_long THEN entry + lock + BP(Abs(entry), FEES_PCT_PAD)
                            ELSE entry - lock - BP(Abs(entry), FEES_PCT_PAD)
    IN  IF lock <= 0 \/ mfe_abs < lock THEN sl_new
        ELSE IF is_long THEN Min2(Max2(sl_new, floor), px - 1)
        ELSE Max2(Min2(sl_new, floor), px + 1)

\* _guard_sl: BE floor, then the min-gap clamp around the price, rounded
_guard_sl(sl_target, is_long, px, entry, atr, hit_tp1) ==
    LET g   == _apply_be_floor(sl_target, is_long, entry, hit_tp1)
        gap == _min_sl_gap(px, entry, atr)
    IN  Round4(IF is_long THEN Min2(g, px - gap) ELSE Max2(g, px + gap))

\* taser_rules.manage_with_flow, the stops it may answer with: the current
\* one; BE plus the fee cushion once TP1 is tagged or progress reached
\* FLOW_BE_AT_R_PCT of R; a structural trail behind the price once TP1 is
\* tagged or progress reached 1.2 R.  It never answers with a looser stop.
FLOW_BE_AT_R_PCT == 90
FlowTrailDist    == PX(30)
FlowStops(m, px) ==
    LET is_long == m.side = "LONG"
        R       == Max2(1, Abs(m.entry - m.sl))
        prog    == IF is_long THEN px - m.entry ELSE m.entry - px
        tp1_hit == IF is_long THEN px >= m.tps[1] ELSE px <= m.tps[1]
        fee     == BP(m.entry, FEE_PCT) * FEE_PAD_MULT
        be      == IF is_long THEN Max2(m.sl, m.entry + fee) ELSE Min2(m.sl, m.entry - fee)
        trail   == IF is_long THEN Max2(be, px - FlowTrailDist) ELSE Min2(be, px + FlowTrailDist)
    IN  { Round4(m.sl) }
        \cup (IF tp1_hit \/ prog * 100 >= FLOW_BE_AT_R_PCT * R THEN { Round4(be) } ELSE {})
        \cup (IF tp1_hit \/ prog * 100 >= 120 * R THEN { Round4(trail) } ELSE {})

\* The surveil_loop body past the 1m fetch, for a tick at time t, in stages.

\* last stage: TP ladder proposal, TP1/TP2 recognition; on TP1 the stop is
\* floored at break-even at once.  m2 holds the locals after the stop step.
surveil_tick_tp(m, inp, bar, T, m2, sltags) ==
    LET is_long == m.side = "LONG"
        reach(tp) == IF is_long THEN bar.high >= tp ELSE bar.low <= tp
        tp1_now == ~m.hit_tp1 /\ reach(inp.tps[1])
        be_sl   == _apply_be_floor(m2.sl, is_long, m.entry, TRUE)
        floored == tp1_now /\ (IF is_long THEN be_sl > m2.sl ELSE be_sl < m2.sl)
        hit1    == m.hit_tp1 \/ tp1_now
        tp2_now == hit1 /\ ~m.hit_tp2 /\ reach(inp.tps[2])
    IN  [mgr |-> [m2 EXCEPT !.tps = inp.tps,
                            !.tp_moves = IF inp.tps # m.tps THEN @ + 1 ELSE @,
                            !.hit_tp1 = hit1,
                            !.sl = IF floored THEN be_sl ELSE @,
                            !.hit_tp2 = @ \/ tp2_now],
         trades |-> T,
         tags |-> sltags \cup (IF floored THEN {"SL_REPLACED"} ELSE {}),
         done |-> FALSE]

\* the stop step: the flow's stop new_sl (after the absolute lock) and its
\* guarded value move the stop when both tighten it and the cooldown, in
\* whole seconds, has passed
surveil_tick_sl(m, inp, t, bar, T, mfe, new_sl, guarded) ==
    LET is_long == m.side = "LONG"
        tighter(a, b) == IF is_long THEN a > b ELSE a < b
        cool    == _now_s(t) - m.last_sl_move_ts >= SL_TIGHTEN_COOLDOWN_SEC
        move    == tighter(new_sl, m.sl) /\ tighter(guarded, m.sl)
    IN  The({ surveil_tick_tp(m, inp, bar, T, m2,
                  (IF move /\ ~cool THEN {"SL_COOLDOWN_SKIP"} ELSE {})
                  \cup (IF move /\ cool THEN {"SL_REPLACED"} ELSE {})) :
              m2 \in { [m EXCEPT !.mfe_abs = mfe, !.px = bar.close,
                                 !.sl = IF move /\ cool THEN guarded ELSE @,
                                 !.last_sl_move_ts = IF move /\ cool THEN _now_s(t) ELSE @] } })

\* the absolute lock on the flow's stop, then _guard_sl
surveil_tick_lock(m, inp, t, bar, T, mfe, new_sl) ==
    The({ surveil_tick_sl(m, inp, t, bar, T, mfe, new_sl, guarded) :
          guarded \in { _guard_sl(new_sl, m.side = "LONG", bar.close, m.entry,
                                  inp.feats.atr5, m.hit_tp1) } })

\* first stage, on the tick's 1m bar: a flat position, the stop-touch exit,
\* the excursion mfe
surveil_tick_bar(m, inp, t, bar, T, mfe) ==
    IF m.qty <= 0
    THEN [mgr |-> m, trades |-> close_trade(T, m.tid, bar.close, "CLOSED_FLAT", t),
          tags |-> {"CLOSED_FLAT"}, done |-> TRUE]
    ELSE IF _candle_sl_hit(m.side = "LONG", bar.high, bar.low, m.sl)
    THEN [mgr |-> [m EXCEPT !.mfe_abs = mfe, !.px = bar.close],
          trades |-> close_trade(T, m.tid, m.sl, "CLOSED_SL", t),
          tags |-> {"CLOSED"}, done |-> TRUE]
    ELSE The({ surveil_tick_lock(m, inp, t, bar, T, mfe, new_sl) :
               new_sl \in { _apply_abs_lock(inp.flow_sl, m.side = "LONG", m.entry, bar.close,
                                            mfe, SCALP_ABS_LOCK_USD) } })

\* the favourable excursion so far, after bar
surveil_mfe(m, bar) ==
    Max2(m.mfe_abs, Max2(0, IF m.side = "LONG" THEN bar.high - m.entry ELSE m.entry - bar.low))

surveil_tick(m, inp, t, T) ==
    The({ The({ surveil_tick_bar(m, inp, t, bar, T, mfe) : mfe \in { surveil_mfe(m, bar) } }) :
          bar \in { ShapeBar(m, inp.shape) } })
\* ------------------------------------------------ the manager, as steps
FirstShape == <<30, 20, 25>>
NoFeats    == [adx14 |-> 0, atr5 |-> 0]
SetHeld(h, tid, sl) == [h EXCEPT ![tid] = sl]

\* run_trendscalp_manage up to its loop: in live mode a venue that is
\* already flat closes the trade at entry and ends the manager; otherwise
\* the trade is (re)marked OPEN and the loop starts from the draft's stop
ts_manage_start ==
    /\ pc = "manage_start"
    /\ mgr.draft.engine = "trendscalp"
    /\ \E venue_flat \in (IF dry_run THEN {FALSE} ELSE BOOLEAN) :
         /\ op' = [name |-> "ts_manage_start", tid |-> mgr.tid, venue_flat |-> venue_flat]
         /\ sl_held' = SetHeld(sl_held, mgr.tid, mgr.draft.sl)
         /\ IF venue_flat
            THEN /\ trades' = close_trade(trades, mgr.tid, mgr.draft.entry, "CLOSED_VENUE_FLAT", now)
                 /\ tags' = {"CLOSED_VENUE_FLAT"}
                 /\ mgr' = NoMgr
                 /\ pc' = "scan"
            ELSE /\ trades' = update_trade_status(trades, mgr.tid, "OPEN", now)
                 /\ tags' = {"MS_MODE"}
                 /\ mgr' = MgrInit(mgr.tid, mgr.draft, mgr.qty, mgr.resumed)
                 /\ pc' = "manage"
    /\ UNCHANGED <<now, boots, dry_run, orders, last_traded_bar_ts, ts_last>>

\* surveil_loop up to its loop
surveil_start ==
    /\ pc = "manage_start"
    /\ mgr.draft.engine # "trendscalp"
    /\ op' = [name |-> "surveil_start", tid |-> mgr.tid]
    /\ sl_held' = SetHeld(sl_held, mgr.tid, mgr.draft.sl)
    /\ trades' = update_trade_status(trades, mgr.tid, "OPEN", now)
    /\ tags' = {}
    /\ mgr' = MgrInit(mgr.tid, mgr.draft, mgr.qty, mgr.resumed)
    /\ pc' = "manage"
    /\ UNCHANGED <<now, boots, dry_run, orders, last_traded_bar_ts, ts_last>>

\* what a tick of either loop leaves behind: r is the loop body's result
manage_tick_done(r) ==
    /\ trades' = r.trades
    /\ tags' = r.tags
    /\ sl_held' = SetHeld(sl_held, mgr.tid, r.mgr.sl)
    /\ IF r.done THEN mgr' = NoMgr /\ pc' = "scan"
                 ELSE mgr' = [r.mgr EXCEPT !.ticks = @ + 1] /\ pc' = "manage"

\* a tick whose 1m fetch came back empty
manage_tick_no_1m ==
    /\ tags' = {"NO_1M"}
    /\ mgr' = [mgr EXCEPT !.ticks = @ + 1]
    /\ UNCHANGED <<trades, orders, pc, sl_held>>

\* the 1m bars this manager run has worked on so far
ts_seen == IF op.name = "ts_manage_tick" THEN op.seen ELSE <<>>

\* what a tick's feature computation may do: go through, or raise in the
\* indicator recompute, or raise in the FSM proposal
TickErrs == {"none", "indicators", "fsm"}

\* the tick's result with the telemetry of a caught feature exception
ts_err_logged(r, err) ==
    [r EXCEPT !.tags = @ \cup (IF err = "indicators" THEN {"INDICATORS_ERROR"}
                               ELSE IF err = "fsm" THEN {"FSM_ERROR"} ELSE {})]

\* the tick of run_trendscalp_manage at time t with inputs inp, r being the
\* loop body's result.  Inputs that cannot change the outcome of the tick
\* are held at one value.
ts_manage_step(inp, t, r) ==
    LET idle == inp.venue_flat \/ ~inp.fetch_ok
    IN  /\ idle => inp.shape = FirstShape /\ inp.feats = NoFeats /\ inp.tps = mgr.tps
        /\ (idle \/ mgr.hit_tp1 \/ "CLOSED" \in r.tags) => ~inp.hard_break
        /\ (idle \/ "CLOSED" \in r.tags) =>
               inp.feats = NoFeats /\ inp.tps = mgr.tps /\ inp.err = "none"
        /\ (idle \/ ~_candle_sl_hit(mgr.side = "LONG", ShapeBar(mgr, inp.shape).high,
                                     ShapeBar(mgr, inp.shape).low, mgr.sl))
               => inp.conf.closes = <<>> /\ ~inp.conf.raised
        /\ ~inp.ex_ok =>
               ~idle /\ r # ts_err_logged(ts_tick(mgr, [inp EXCEPT !.ex_ok = TRUE], t, dry_run,
                                                  trades, orders), inp.err)
        /\ inp.ml_slope < 0 =>
               ~idle /\ r # ts_err_logged(ts_tick(mgr, [inp EXCEPT !.ml_slope = 0], t, dry_run,
                                                  trades, orders), inp.err)
        /\ now' = t
        /\ op' = [name |-> "ts_manage_tick", tid |-> mgr.tid,
                  before |-> [sl |-> mgr.sl, hit_tp1 |-> mgr.hit_tp1,
                              last_sl_move_ts |-> mgr.last_sl_move_ts, tps |-> mgr.tps,
                              row |-> trades[mgr.tid], orders |-> Len(orders),
                              regime |-> mgr.last_regime, hit_tp2 |-> mgr.hit_tp2,
                              pe |-> mgr.pe_guard, mfe_abs |-> mgr.mfe_abs],
                  after |-> IF idle
                            THEN [hit_tp1 |-> mgr.hit_tp1, regime |-> mgr.last_regime,
                                  hit_tp2 |-> mgr.hit_tp2]
                            ELSE [hit_tp1 |-> r.mgr.hit_tp1, regime |-> r.mgr.last_regime,
                                  hit_tp2 |-> r.mgr.hit_tp2],
                  inp |-> inp,
                  seen |-> IF idle THEN ts_seen ELSE Append(ts_seen, inp.shape)]
        /\ IF inp.venue_flat
           THEN /\ trades' = close_trade(trades, mgr.tid,
                                         IF mgr.px # 0 THEN mgr.px ELSE mgr.sl,
                                         "CLOSED_VENUE_FLAT", t)
                /\ tags' = {"CLOSED_VENUE_FLAT"}
                /\ mgr' = NoMgr /\ pc' = "scan"
                /\ UNCHANGED <<orders, sl_held>>
           ELSE IF ~inp.fetch_ok
           THEN manage_tick_no_1m
           ELSE orders' = r.orders /\ manage_tick_done(r)

\* one iteration of the run_trendscalp_manage loop: the poll sleep ending at
\* one of times, the live venue-flat check (due on every tick, the ticks
\* being further apart than TS_CHECK_POS_EVERY_S), the 1m fetch answering
\* with a bar of shapes, the indicators callable answering from feats_of,
\* and the loop body.  A raising indicator recompute leaves feats = {},
\* read as ADX 0 and ATR 0; a raising propose() leaves prop = None, no TP
\* proposal; the tick goes on with these
\* the confirmation fetch is made only on a bar that touches the stop
ConfsOn(m, shape, confs) ==
    IF _candle_sl_hit(m.side = "LONG", ShapeBar(m, shape).high, ShapeBar(m, shape).low, m.sl)
    THEN confs
    ELSE { c \in confs : c.closes = <<>> /\ ~c.raised }

ts_manage_iter(times, shapes, feats_of, max_ticks, confs) ==
    /\ pc = "manage"
    /\ mgr.engine = "trendscalp"
    /\ mgr.ticks < max_ticks
    /\ \E t \in times,
          venue_flat \in (IF dry_run THEN {FALSE} ELSE BOOLEAN), fetch_ok \in BOOLEAN,
          shape \in shapes, feats \in feats_of, ml_slope \in {-1, 0},
          tps \in TpProposals(mgr), ex_ok \in BOOLEAN, hard_break \in BOOLEAN,
          err \in TickErrs :
       \E conf \in ConfsOn(mgr, shape, confs) :
         LET inp == [venue_flat |-> venue_flat, fetch_ok |-> fetch_ok, shape |-> shape,
                     feats |-> feats, ml_slope |-> ml_slope, tps |-> tps, ex_ok |-> ex_ok,
                     hard_break |-> hard_break, err |-> err, conf |-> conf]
         IN  /\ err = "indicators" => feats = NoFeats
             /\ err = "fsm" => tps = mgr.tps
             /\ (venue_flat \/ ~fetch_ok) =>
                    /\ shape = FirstShape /\ feats = NoFeats /\ tps = mgr.tps
                    /\ ~hard_break /\ err = "none" /\ ex_ok /\ ml_slope = 0
             /\ mgr.hit_tp1 => ~hard_break
             /\ \E r \in { ts_err_logged(ts_tick(mgr, inp, t, dry_run, trades, orders), err) } :
                  ts_manage_step(inp, t, r)
    /\ UNCHANGED <<boots, dry_run, last_traded_bar_ts, ts_last>>

\* the stop-touch confirmation as configured: SL_CLOSE_CONFIRM_BARS bars,
\* and no fetch to answer when that is 0
TickConfirms == { [need |-> SL_CLOSE_CONFIRM_BARS, closes |-> <<>>, raised |-> FALSE] }

\* the loop as the scheduler runs it
ts_manage_tick ==
    ts_manage_iter(SleepEnd(now, MANAGE_POLL_SECONDS), BarShapes, Feats, MaxTicks, TickConfirms)

\* the tick of surveil_loop at time t with inputs inp, r being the loop
\* body's result
surveil_step(inp, t, r) ==
    /\ (~inp.fetch_ok \/ r.done) =>
           /\ inp.fetch_ok \/ inp.shape = FirstShape
           /\ inp.feats.atr5 = 0 /\ inp.tps = mgr.tps /\ inp.flow_sl = Round4(mgr.sl)
    /\ now' = t
    /\ op' = [name |-> "surveil_loop_tick", tid |-> mgr.tid,
              before |-> [sl |-> mgr.sl, hit_tp1 |-> mgr.hit_tp1,
                          last_sl_move_ts |-> mgr.last_sl_move_ts]]
    /\ IF ~inp.fetch_ok
       THEN manage_tick_no_1m
       ELSE orders' = orders /\ manage_tick_done(r)

\* one iteration of the surveil_loop loop: the poll sleep ending at one of
\* times, the 1m fetch answering with a bar of shapes
surveil_iter(times, shapes, max_ticks) ==
    /\ pc = "manage"
    /\ mgr.engine # "trendscalp"
    /\ mgr.ticks < max_ticks
    /\ \E t \in times, fetch_ok \in BOOLEAN,
          shape \in shapes, atr5 \in { f.atr5 : f \in Feats }, tps \in TpProposals(mgr) :
       \E flow_sl \in FlowStops(mgr, ShapeBar(mgr, shape).close) :
         LET inp == [fetch_ok |-> fetch_ok, shape |-> shape, feats |-> [adx14 |-> 0, atr5 |-> atr5],
                     flow_sl |-> flow_sl, tps |-> tps]
         IN  \E r \in { surveil_tick(mgr, inp, t, trades) } : surveil_step(inp, t, r)
    /\ UNCHANGED <<boots, dry_run, last_traded_bar_ts, ts_last>>

\* the loop as the scheduler runs it
surveil_loop_tick == surveil_iter(SleepEnd(now, MANAGE_POLL_SECONDS), BarShapes, MaxTicks)

\* an exception out of recover_open_trades (a malformed row or candle, a
\* failing write) before any trade was closed: run_scheduler logs it, takes
\* the answer "nothing to resume" and goes on to the scan loop
recover_raise ==
    /\ pc = "boot"
    /\ list_open_trades(trades) # {}
    /\ op' = [name |-> "recover_raise"]
    /\ tags' = {"RECOVER_ERROR"}
    /\ pc' = "scan"
    /\ UNCHANGED <<now, dry_run, trades, orders, last_traded_bar_ts, ts_last, mgr, sl_held, boots>>

\* an exception out of scan_once before it approved anything: the loop's
\* except branch logs it and sleeps the error pause
scan_raise ==
    /\ pc = "scan"
    /\ op' = [name |-> "scan_raise"]
    /\ tags' = {"RUN_ERROR"}
    /\ pc' = "sleep_err"
    /\ UNCHANGED <<now, dry_run, trades, orders, last_traded_bar_ts, ts_last, mgr, sl_held, boots>>

\* an exception out of a manager's loop (a malformed candle, a failing
\* write).  The call in the scan loop sits inside the loop's try: the
\* exception is logged and followed by the error pause.  The call in the
\* resume block sits inside no try: the exception leaves run_scheduler and
\* asyncio.run, and the process ends
manage_raise ==
    /\ pc = "manage"
    /\ op' = [name |-> "manage_raise", tid |-> mgr.tid, resumed |-> mgr.resumed]
    /\ mgr' = NoMgr
    /\ IF mgr.resumed
       THEN pc' = "dead" /\ tags' = {}
       ELSE pc' = "sleep_err" /\ tags' = {"RUN_ERROR"}
    /\ UNCHANGED <<now, dry_run, trades, orders, last_traded_bar_ts, ts_last, sl_held, boots>>

Next ==
    \/ recover_open_trades
    \/ recover_raise
    \/ scan_once
    \/ scan_raise
    \/ scheduler_sleep
    \/ ts_manage_start
    \/ ts_manage_tick
    \/ surveil_start
    \/ surveil_loop_tick
    \/ manage_raise
    \/ restart

Spec == Init /\ [][Next]_vars

\* One process run of the scheduler as a running asyncio task, started on a
\* fresh DB or on the DB a process that died while managing left behind: a
\* step of run_scheduler that can be taken is taken in the end; exceptions
\* may happen and are not owed.  The engines answer NONE or one side each,
\* no heatmap is in the way, and the 1m bars are of three shapes.
LeftDrafts == { Signal("LONG", FirstPrice, e) : e \in {"trendscalp", "taser"} }
InitLive ==
    /\ dry_run \in BOOLEAN
    /\ pc = "boot"
    /\ last_traded_bar_ts = 0
    /\ ts_last = NoTsMem
    /\ mgr = NoMgr
    /\ boots = 1
    /\ op = [name |-> "init"]
    /\ tags = {}
    /\ \/ /\ now = Epoch0S * 1000
          /\ trades = <<>> /\ orders = <<>> /\ sl_held = <<>>
       \/ \E d \in LeftDrafts :
          /\ now = (Epoch0S + ClockStepS) * 1000
          /\ trades = new_trade(<<>>, d.side, d.entry, d.sl, d.tps, 2, d.engine, Epoch0S * 1000)
          /\ orders = place_bracket(<<>>, 1, d, dry_run, ExAllOk).orders
          /\ sl_held = <<d.sl>>

LiveShapes == { FirstShape, <<60, 0, 5>>, <<-80, -100, -90>> }
live_scan == scan_early \/ scan_main_on({"NONE", "LONG"}, {"NONE", "SHORT"}, FALSE)
live_ts_tick ==
    ts_manage_iter(SleepEnd(now, MANAGE_POLL_SECONDS), LiveShapes, {NoFeats}, MaxTicks,
                   TickConfirms)
RunSteps ==
    \/ recover_open_trades
    \/ live_scan
    \/ scheduler_sleep
    \/ ts_manage_start
    \/ live_ts_tick
    \/ surveil_start
    \/ surveil_loop_tick
NextLive == RunSteps \/ recover_raise \/ scan_raise \/ manage_raise
SpecLive == InitLive /\ [][NextLive]_vars /\ WF_vars(RunSteps)

\* ----------------------------------------------- guard_sl, on its own
\* The values a manager may pass to guard_sl, around an entry of 100.00.
\* Offsets are in cents from entry, counted in the trade's direction.
Toward(is_long, entry, c) == IF is_long THEN entry + PX(c) ELSE entry - PX(c)

GuardPriceOffs     == { -50, 5, 25, 120 }
GuardCurrentOffs   == { -100, 10, 20 }
GuardCandidateOffs == { -100, 10, 100 }
GuardAtrs          == { 0, PX(50) }
GuardArgs ==
    { [sl_candidate |-> Toward(l, FirstPrice, c), sl_current |-> Toward(l, FirstPrice, s),
       is_long |-> l, price |-> Toward(l, FirstPrice, p), entry |-> FirstPrice, atr |-> a,
       hit_tp1 |-> h, allow_be |-> b] :
      l \in BOOLEAN, c \in GuardCandidateOffs, s \in GuardCurrentOffs, p \in GuardPriceOffs,
      a \in GuardAtrs, h \in BOOLEAN, b \in BOOLEAN }

InitGuard ==
    /\ now = Epoch0S * 1000
    /\ dry_run = TRUE
    /\ trades = <<>>
    /\ orders = <<>>
    /\ pc = "guard"
    /\ last_traded_bar_ts = 0
    /\ ts_last = NoTsMem
    /\ mgr = NoMgr
    /\ sl_held = <<>>
    /\ boots = 1
    /\ op \in { [name |-> "guard_args", args |-> a] : a \in GuardArgs }
    /\ tags = {}

\* one pass of guard_sl on the drawn arguments
guard_pass ==
    /\ pc = "guard"
    /\ pc' = "guard_done"
    /\ op' = [name |-> "guard_sl", args |-> op.args,
              out |-> guard_sl(op.args.sl_candidate, op.args.sl_current, op.args.is_long,
                               op.args.price, op.args.entry, op.args.atr,
                               op.args.hit_tp1, op.args.allow_be)]
    /\ UNCHANGED <<now, dry_run, trades, orders, last_traded_bar_ts, ts_last, mgr, sl_held,
                   boots, tags>>

\* a second pass of guard_sl, on the first pass's output as candidate and
\* as current stop, the other arguments as they were
guard_pass_again ==
    /\ pc = "guard_done"
    /\ pc' = "guard_twice"
    /\ op' = [name |-> "guard_sl_again", args |-> op.args, out |-> op.out,
              out2 |-> guard_sl(op.out, op.out, op.args.is_long,
                                op.args.price, op.args.entry, op.args.atr,
                                op.args.hit_tp1, op.args.allow_be)]
    /\ UNCHANGED <<now, dry_run, trades, orders, last_traded_bar_ts, ts_last, mgr, sl_held,
                   boots, tags>>

NextGuard == guard_pass \/ guard_pass_again
SpecGuard == InitGuard /\ [][NextGuard]_vars

\* -------------------------------------------- place_bracket, called again
\* A trade row fresh from db.new_trade, and place_bracket called on it up to
\* MaxBracketCalls times.
MaxBracketCalls == 2

BracketDrafts ==
    { [Signal(side, price, eng) EXCEPT !.tps = IF with_tps THEN @ ELSE <<>>] :
      side \in Sides, price \in { FirstPrice, PX(10020) }, eng \in { "trendscalp", "taser" },
      with_tps \in BOOLEAN }

InitBracket ==
    /\ now = Epoch0S * 1000
    /\ dry_run \in BOOLEAN
    /\ \E d \in BracketDrafts :
         trades = new_trade(<<>>, d.side, d.entry, d.sl, d.tps, 2, d.engine, Epoch0S * 1000)
    /\ orders = <<>>
    /\ pc = "bracket"
    /\ last_traded_bar_ts = 0
    /\ ts_last = NoTsMem
    /\ mgr = NoMgr
    /\ sl_held = <<0>>
    /\ boots = 1
    /\ op = [name |-> "new_trade", call |-> 0]
    /\ tags = {}

\* what a place_bracket call that returned pb leaves behind
bracket_placed(pb) ==
    /\ orders' = pb.orders
    /\ tags' = pb.tags
    /\ op' = [name |-> "place_bracket", call |-> op.call + 1, ids |-> pb.ids,
              raised |-> pb.raised, count_before |-> order_count(orders, 1)]

place_bracket_call ==
    /\ pc = "bracket"
    /\ op.call < MaxBracketCalls
    /\ \E ex \in (IF dry_run THEN {ExAllOk} ELSE ExAnswers) :
         bracket_placed(place_bracket(orders, 1, _Draft(trades[1]), dry_run, ex))
    /\ UNCHANGED <<now, dry_run, trades, pc, last_traded_bar_ts, ts_last, mgr, sl_held, boots>>

NextBracket == place_bracket_call
SpecBracket == InitBracket /\ [][NextBracket]_vars

\* ------------------------------- the order helpers, called on a bracket
\* ensure_partial_tp1 and exit_remainder_market as the functions they are:
\* called, in any order and with any fraction, qty hint and venue answer,
\* for a trade whose bracket was placed, MaxOrderCalls times in all.
MaxOrderCalls == 3

OrderFractions == { 0, TS_PARTIAL_TP1 }
OrderQtyHints  == { 0, 2 }

InitOrders ==
    /\ now = Epoch0S * 1000
    /\ dry_run \in BOOLEAN
    /\ \E d \in BracketDrafts :
         /\ trades = new_trade(<<>>, d.side, d.entry, d.sl, d.tps, 2, d.engine, Epoch0S * 1000)
         /\ orders = place_bracket(<<>>, 1, d, dry_run, ExAllOk).orders
    /\ pc = "orders"
    /\ last_traded_bar_ts = 0
    /\ ts_last = NoTsMem
    /\ mgr = NoMgr
    /\ sl_held = <<0>>
    /\ boots = 1
    /\ op = [name |-> "place_bracket", call |-> 0]
    /\ tags = {}

\* the take-profit rows of trade tid within _tp_exists_at's tolerance of px
tp_rows_at(O, tid, px) ==
    { i \in 1..Len(O) : /\ O[i].tid = tid
                         /\ O[i].typ \in TakeProfitKinds
                         /\ O[i].status \in {"open", "filled"}
                         /\ Abs(O[i].price - px) <= TP_EXISTS_TOL }

\* what a helper call that returned r leaves behind
order_call_done(name, r, at_tp1) ==
    /\ orders' = r.orders
    /\ tags' = r.tags
    /\ op' = [name |-> name, call |-> op.call + 1, oid |-> r.oid, before |-> orders,
              at_tp1 |-> at_tp1]

ensure_partial_tp1_call ==
    /\ pc = "orders"
    /\ op.call < MaxOrderCalls
    /\ \E fraction \in OrderFractions, qty_hint \in OrderQtyHints,
          ex_ok \in (IF dry_run THEN {TRUE} ELSE BOOLEAN) :
         order_call_done("ensure_partial_tp1",
                         ensure_partial_tp1(orders, 1, _Draft(trades[1]), fraction, qty_hint,
                                            dry_run, ex_ok),
                         /\ trades[1].tps # <<>>
                         /\ tp_rows_at(orders, 1, Round4(trades[1].tps[1])) # {})
    /\ UNCHANGED <<now, dry_run, trades, pc, last_traded_bar_ts, ts_last, mgr, sl_held, boots>>

exit_remainder_market_call ==
    /\ pc = "orders"
    /\ op.call < MaxOrderCalls
    /\ \E qty_hint \in OrderQtyHints, ex_ok \in (IF dry_run THEN {TRUE} ELSE BOOLEAN) :
         order_call_done("exit_remainder_market",
                         exit_remainder_market(orders, 1, qty_hint, dry_run, ex_ok), FALSE)
    /\ UNCHANGED <<now, dry_run, trades, pc, last_traded_bar_ts, ts_last, mgr, sl_held, boots>>

NextOrders == ensure_partial_tp1_call \/ exit_remainder_market_call
SpecOrders == InitOrders /\ [][NextOrders]_vars

\* ------------------------------------- run_trendscalp_manage, on its own
\* The manager as the function it is: called on a trade fresh from
\* db.new_trade and place_bracket, with an indicators callable that may
\* answer a flat or a trending ADX / ATR snapshot, a rising or pulling-back
\* run of 1m bars, and one tick per 1m bar, up to MaxManageTicks of them.
MaxManageTicks == 4

ManageShapes == { <<60, 60, 60>>, <<80, 80, 80>>, <<110, 110, 110>>, <<60, 0, 5>> }
ManageFeats  == { [adx14 |-> 0, atr5 |-> 0], [adx14 |-> 30, atr5 |-> PX(50)] }
ManagePolls(t) == { t + Bar1Ms }

InitManage ==
    /\ now = Epoch0S * 1000
    /\ dry_run \in BOOLEAN
    /\ \E side \in Sides :
         LET d == Signal(side, FirstPrice, "trendscalp")
         IN  /\ trades = new_trade(<<>>, d.side, d.entry, d.sl, d.tps, 2, d.engine, Epoch0S * 1000)
             /\ orders = place_bracket(<<>>, 1, d, dry_run, ExAllOk).orders
             /\ mgr = StartMgr(1, d, 2, FALSE)
    /\ pc = "manage_start"
    /\ last_traded_bar_ts = Tf5Ts(Epoch0S * 1000)
    /\ ts_last = NoTsMem
    /\ sl_held = <<0>>
    /\ boots = 1
    /\ op = [name |-> "scan_once", tid |-> 1]
    /\ tags = {}

manage_call_tick ==
    ts_manage_iter(ManagePolls(now), ManageShapes, ManageFeats, MaxManageTicks, TickConfirms)

NextManage == ts_manage_start \/ manage_call_tick
SpecManage == InitManage /\ [][NextManage]_vars

\* ------------------------------------- the managers, up to the last TP
\* Either manager on a trade fresh from db.new_trade and place_bracket, one
\* tick per 1m bar, the bars going as far as the draft's TP3.  The manager
\* is a running task: a tick that can be taken is taken in the end.
Tp3Shapes == { FirstShape, <<155, 140, 150>>, <<-80, -100, -90>> }

InitTp3 ==
    /\ now = Epoch0S * 1000
    /\ dry_run \in BOOLEAN
    /\ \E side \in Sides, engine \in { "trendscalp", "taser" } :
         LET d == Signal(side, FirstPrice, engine)
         IN  /\ trades = new_trade(<<>>, d.side, d.entry, d.sl, d.tps, 2, d.engine, Epoch0S * 1000)
             /\ orders = place_bracket(<<>>, 1, d, dry_run, ExAllOk).orders
             /\ mgr = StartMgr(1, d, 2, FALSE)
    /\ pc = "manage_start"
    /\ last_traded_bar_ts = Tf5Ts(Epoch0S * 1000)
    /\ ts_last = NoTsMem
    /\ sl_held = <<0>>
    /\ boots = 1
    /\ op = [name |-> "scan_once", tid |-> 1]
    /\ tags = {}

tp3_ts_tick ==
    ts_manage_iter(ManagePolls(now), Tp3Shapes, {NoFeats}, MaxManageTicks, TickConfirms)
tp3_surveil_tick == surveil_iter(ManagePolls(now), Tp3Shapes, MaxManageTicks)

NextTp3 == ts_manage_start \/ surveil_start \/ tp3_ts_tick \/ tp3_surveil_tick
SpecTp3 == InitTp3 /\ [][NextTp3]_vars /\ WF_vars(NextTp3)

\* ----------------------------------------- the regime decision, on its own
\* regime.classify, the classifier of trendscalp.scalp_manage: prev is
\* meta["regime"] ("NONE" for None); closes holds the last two closes, or is
\* empty when the series are
classify(adx, atr, closes, ema200_last, prev) ==
    IF closes = <<>> THEN (IF prev = "NONE" THEN "CHOP" ELSE prev)
    ELSE LET price       == closes[Len(closes)]
             ema_side    == IF price >= ema200_last THEN 1 ELSE -1
             close_slope == IF Len(closes) < 2 THEN 0
                            ELSE IF price > closes[Len(closes) - 1] THEN 1 ELSE -1
             want_runner == /\ adx >= TS_ADX_UP
                            /\ atr * 10000 >= TS_ATR_UP * price
                            /\ ema_side * close_slope >= 0
             want_chop   == adx <= TS_ADX_DN \/ atr * 10000 <= TS_ATR_DN * price
         IN  IF prev = "RUNNER" THEN (IF want_chop THEN "CHOP" ELSE "RUNNER")
             ELSE (IF want_runner THEN "RUNNER" ELSE "CHOP")

\* Observations a tick may bring: ADX and ATR on, between and beyond the
\* thresholds, the price on either side of the EMA200, the close rising or
\* falling.  The price is FirstPrice throughout.
RegimeAdx  == { 0, 23, 24, 26 }
RegimeAtrs == { PX(35), PX(38), PX(40) }
RegimeObs ==
    [adx : RegimeAdx, atr : RegimeAtrs,
     ema200 : { FirstPrice - PX(100), FirstPrice + PX(100) },
     prev_close : { FirstPrice - PX(10), FirstPrice + PX(10) }]
EmptyObs == [adx |-> 0, atr |-> 0, ema200 |-> 0, prev_close |-> 0]
NoObs    == [adx |-> -1, atr |-> 0, ema200 |-> 0, prev_close |-> 0]

\* One of the two functions is called again and again.  mgr holds the regime
\* kept between its calls (last_regime in the manager loop, meta["regime"]
\* for scalp_manage), the observation of the last call and whether that call
\* changed the regime.
InitRegime ==
    /\ now = Epoch0S * 1000
    /\ dry_run = TRUE
    /\ trades = <<>>
    /\ orders = <<>>
    /\ pc \in {"ts_regime", "classify"}
    /\ last_traded_bar_ts = 0
    /\ ts_last = NoTsMem
    /\ mgr = [last_regime |-> "NONE", obs |-> NoObs, moved |-> FALSE]
    /\ sl_held = <<>>
    /\ boots = 1
    /\ op = [name |-> "init"]
    /\ tags = {}

\* what a call that saw o and decided regime leaves behind
regime_called(name, o, regime) ==
    /\ mgr' = [last_regime |-> regime, obs |-> o, moved |-> regime # mgr.last_regime]
    /\ op' = [name |-> name, obs |-> o, before |-> mgr.last_regime,
              repeat |-> o = mgr.obs, prev_moved |-> mgr.moved]
    /\ tags' = IF name = "ts_regime_tick" /\ regime # mgr.last_regime THEN {"REGIME"} ELSE {}

\* the regime block of one run_trendscalp_manage tick
ts_regime_tick ==
    /\ pc = "ts_regime"
    /\ \E o \in RegimeObs :
         regime_called("ts_regime_tick", o, ts_regime(mgr.last_regime, o.adx, o.atr, FirstPrice))
    /\ UNCHANGED <<now, dry_run, trades, orders, pc, last_traded_bar_ts, ts_last, sl_held, boots>>

\* the regime block of one scalp_manage call
classify_call ==
    /\ pc = "classify"
    /\ \/ \E o \in RegimeObs :
            regime_called("classify_call", o,
                          classify(o.adx, o.atr, <<o.prev_close, FirstPrice>>, o.ema200,
                                   mgr.last_regime))
       \/ regime_called("classify_call", EmptyObs, classify(0, 0, <<>>, 0, mgr.last_regime))
    /\ UNCHANGED <<now, dry_run, trades, orders, pc, last_traded_bar_ts, ts_last, sl_held, boots>>

NextRegime == ts_regime_tick \/ classify_call
SpecRegime == InitRegime /\ [][NextRegime]_vars

\* ------------------------------ the engines' levels, from signal to trade
\* What the engines put into a signal and what scan_once does to it before
\* db.new_trade.  Products with a multiplier are cut to the 1e-5 grid.
MIN_R_MULT             == 140
TP1_ABS                == 50000
MODE_ADAPT_ENABLED     == TRUE
MODE_CHOP_ATR_PCT_MAX  == 25
MODE_CHOP_ADX_MAX      == 25
TP_ATR_MULTS           == <<60, 100, 150>>
MODE_CHOP_TP_ATR_MULTS == <<60, 100, 150>>
MODE_RALLY_TP_ATR_MULTS == <<90, 160, 260>>

\* variant of _order_tps that rounds and cuts to three but keeps the order
\* it was given
_order_tps_as_given(side, tps) ==
    SubSeq([i \in 1..Len(tps) |-> Round4(tps[i])], 1, Min2(3, Len(tps)))

\* taser_rules._order_tps: round to 4dp, sort away from entry, drop repeats,
\* keep three
_order_tps(side, tps) ==
    LET vals == SortAsc({ Round4(tps[i]) : i \in 1..Len(tps) })
        arr  == IF side = "LONG" THEN vals ELSE Reverse(vals)
    IN  SubSeq(arr, 1, Min2(3, Len(arr)))

\* the padding loop of _tp_guard: targets are added a step beyond the last
\* until there are three
RECURSIVE tp_fill(_, _, _, _)
tp_fill(is_long, entry, gap, keep) ==
    IF Len(keep) >= 3 THEN keep
    ELSE LET n    == Len(keep)
             base == IF n = 0 THEN entry ELSE keep[n]
             prev == IF n > 1 THEN keep[n - 1] ELSE entry
             step == IF n = 0 THEN gap
                     ELSE Max2(gap, IF is_long THEN keep[n] - prev ELSE prev - keep[n])
         IN  tp_fill(is_long, entry, gap,
                     Append(keep, Round4(IF is_long THEN base + step ELSE base - step)))

\* taser_rules._tp_guard: the targets beyond entry, ordered, padded to three
_tp_guard(side, entry, sl, tps, atr) ==
    LET is_long == side = "LONG"
        gap  == Max2(PCT(atr, 60), PCT(Max2(1, Abs(entry - sl)), 80))
        keep == SelectSeq(tps, LAMBDA x : IF is_long THEN x > entry ELSE x < entry)
        side2 == IF is_long THEN "LONG" ELSE "SHORT"
    IN  _order_tps(side2, tp_fill(is_long, entry, gap, _order_tps(side2, keep)))

\* taser_rules._enforce_min_r: a TP1 nearer than min(MIN_R_MULT * R, TP1_ABS)
\* is stretched and the ladder re-spaced
_enforce_min_r(entry, sl, tps, side, atr) ==
    IF tps = <<>> THEN tps
    ELSE LET R    == Max2(1, Abs(entry - sl))
             need == Min2(PCT(R, MIN_R_MULT), TP1_ABS)
             gap  == Max2(PCT(atr, 60), PCT(R, 80))
             tpL1 == Round4(entry + need)
             tpL2 == Max2(tpL1 + gap, IF Len(tps) > 1 THEN tps[2] ELSE tpL1 + PCT(gap, 120))
             tpL3 == Max2(tpL2 + gap, IF Len(tps) > 2 THEN tps[3] ELSE tpL2 + PCT(gap, 120))
             tpS1 == Round4(entry - need)
             tpS2 == Min2(tpS1 - gap, IF Len(tps) > 1 THEN tps[2] ELSE tpS1 - PCT(gap, 120))
             tpS3 == Min2(tpS2 - gap, IF Len(tps) > 2 THEN tps[3] ELSE tpS2 - PCT(gap, 120))
         IN  IF Abs(tps[1] - entry) >= need THEN _order_tps(side, tps)
             ELSE IF side = "LONG" THEN _order_tps("LONG", <<tpL1, tpL2, tpL3>>)
             ELSE _order_tps("SHORT", <<tpS1, tpS2, tpS3>>)

\* tp_calc.compute_tps in TP_MODE 'atr': the ATR ladder (the chop or the
\* rally multipliers when MODE_ADAPT_ENABLED), ordered, stretched, guarded
compute_tps(price, sl, side, atr_ref, adx_last) ==
    LET chop  == atr_ref * 10000 <= MODE_CHOP_ATR_PCT_MAX * price /\ adx_last <= MODE_CHOP_ADX_MAX
        mults == IF ~MODE_ADAPT_ENABLED THEN TP_ATR_MULTS
                 ELSE IF chop THEN MODE_CHOP_TP_ATR_MULTS ELSE MODE_RALLY_TP_ATR_MULTS
        raw   == [k \in 1..3 |-> IF side = "LONG" THEN price + PCT(atr_ref, mults[k])
                                                  ELSE price - PCT(atr_ref, mults[k])]
        tps   == _tp_guard(side, price, sl,
                           _enforce_min_r(price, sl, _order_tps(side, raw), side, atr_ref),
                           atr_ref)
    IN  [k \in 1..Len(tps) |-> Round4(tps[k])]

\* taser_rules._make_tps in TP_MODE 'atr': the ATR ladder with TP1 at TP1_ABS
_make_tps(entry, sl, atr, side) ==
    LET raw == [k \in 1..3 |->
                  IF k = 1 THEN Round4(IF side = "LONG" THEN entry + TP1_ABS ELSE entry - TP1_ABS)
                  ELSE IF side = "LONG" THEN entry + PCT(atr, TP_ATR_MULTS[k])
                  ELSE entry - PCT(atr, TP_ATR_MULTS[k])]
    IN  _order_tps(side, raw)

\* the stop of both engines: the stop the structure asks for, want away
\* from price, held between the MAX_SL_PCT and MIN_SL_PCT rails and rounded
\* (scalp_signal in TS_STOP_MODE 'trendline', _structural_sl)
_structural_sl(side, price, want) ==
    IF side = "LONG"
    THEN Round4(Max2(Min2(price - want, price - BP(price, MIN_SL_PCT)),
                     price - BP(price, MAX_SL_PCT)))
    ELSE Round4(Min2(Max2(price + want, price + BP(price, MIN_SL_PCT)),
                     price + BP(price, MAX_SL_PCT)))

\* the signal scalp_signal returns for a setup on side
scalp_signal_levels(side, price, want, atr, adx) ==
    [side |-> side, entry |-> Round4(price), sl |-> _structural_sl(side, price, want),
     tps |-> compute_tps(price, _structural_sl(side, price, want), side, atr, adx),
     engine |-> "trendscalp"]

\* the signal taser_signal returns for a setup on side
taser_signal_levels(side, price, want, atr) ==
    LET sl == _structural_sl(side, price, want)
        t1 == _tp_guard(side, price, sl,
                        _enforce_min_r(price, sl, _make_tps(price, sl, atr, side), side, atr), atr)
    IN  [side |-> side, entry |-> Round4(price), sl |-> Round4(sl),
         tps |-> _tp_guard(side, price, sl, _order_tps(side, t1), atr),
         engine |-> "taser"]

\* Inputs of a scan that ends in a trade: prices whose rails fall on and off
\* the 4dp grid, structural stops inside, nearer and further than the
\* rails, a dead, a quiet and a wide ATR.
DraftPrices == { PX(10000), PX(10002) }
DraftWants  == { PX(20), PX(100), PX(300) }
DraftAtrs   == { 0, PX(20), PX(100) }
DraftAdx    == { 0, 30 }

InitDraft ==
    /\ now = Epoch0S * 1000
    /\ dry_run = TRUE
    /\ trades = <<>>
    /\ orders = <<>>
    /\ pc = "draft"
    /\ last_traded_bar_ts = 0
    /\ ts_last = NoTsMem
    /\ mgr = NoMgr
    /\ sl_held = <<>>
    /\ boots = 1
    /\ op = [name |-> "init"]
    /\ tags = {}

\* scan_once from an engine's signal to db.new_trade: a signal of the first
\* engine loop passes _enforce_min_sl and _sanitize_tp_order, a signal of
\* the fallback loop goes on as the engine returned it
scan_draft ==
    /\ pc = "draft"
    /\ \E eng \in {"trendscalp", "taser"}, fallback \in BOOLEAN, side \in Sides,
          price \in DraftPrices, want \in DraftWants, atr \in DraftAtrs, adx \in DraftAdx :
         LET sig == IF eng = "trendscalp" THEN scalp_signal_levels(side, price, want, atr, adx)
                    ELSE taser_signal_levels(side, price, want, atr)
             d   == IF fallback THEN sig
                    ELSE scan_sanitize([d |-> sig]).d
         IN  /\ eng = "taser" => adx = 0
             /\ trades' = new_trade(trades, d.side, d.entry, d.sl, d.tps, 2, d.engine, now)
             /\ op' = [name |-> "scan_draft", engine |-> eng, fallback |-> fallback,
                       price |-> price, want |-> want, atr |-> atr, adx |-> adx, sig |-> sig]
             /\ tags' = IF ~fallback
                            /\ Abs(sig.entry - sig.sl) < Max2(BP(sig.entry, MIN_SL_PCT), 1)
                         THEN {"SL_PADDED"} ELSE {}
    /\ pc' = "drafted"
    /\ UNCHANGED <<now, dry_run, orders, last_traded_bar_ts, ts_last, mgr, sl_held, boots>>

NextDraft == scan_draft
SpecDraft == InitDraft /\ [][NextDraft]_vars

\* ------------------------ the manager, with the row changed under it
\* SpecManage's trade and manager; while the manager loops, somebody else
\* (an operator at the database, another tool) may set the trade's status
\* to CLOSED through db.update_trade_status.
ExternalShapes == { <<30, 20, 25>>, <<60, 0, 5>>, <<-80, -100, -90>> }

external_status_change ==
    /\ pc = "manage"
    /\ trades[mgr.tid].status \in OpenStatuses
    /\ trades' = update_trade_status(trades, mgr.tid, "CLOSED", now)
    /\ op' = [name |-> "external_status_change", tid |-> mgr.tid]
    /\ tags' = {}
    /\ UNCHANGED <<now, dry_run, orders, pc, last_traded_bar_ts, ts_last, mgr, sl_held, boots>>

external_manage_tick ==
    ts_manage_iter(ManagePolls(now), ExternalShapes, ManageFeats, MaxTicks,
                   TickConfirms)

NextExternal == ts_manage_start \/ external_manage_tick \/ external_status_change
SpecExternal == InitManage /\ [][NextExternal]_vars

\* ------------------------------------ the manager across a PEV grace window
\* The manager called as in SpecManage, seen once per 5m bar (the ticks in
\* between meet the same bar and the same indicators), for MaxPevTicks
\* ticks: long enough for a soft degrade to outlast the grace window.
MaxPevTicks == 4

PevShapes   == { <<30, 20, 25>>, <<60, 0, 5>> }
PevPolls(t) == { t + Bar5Ms }

pev_manage_tick ==
    ts_manage_iter(PevPolls(now), PevShapes, ManageFeats, MaxPevTicks, TickConfirms)

NextPev == ts_manage_start \/ pev_manage_tick
SpecPev == InitManage /\ [][NextPev]_vars

\* ------------------------------------------- the manager on a giveback run
\* The manager called as in SpecManage on 1m bars that run past
\* TS_GIVEBACK_ARM_R * R and hold there or fall back.
GivebackShapes == { <<125, 110, 120>>, <<125, 20, 25>>, <<60, 0, 5>>, <<30, 20, 25>> }

giveback_manage_tick ==
    ts_manage_iter(ManagePolls(now), GivebackShapes, ManageFeats, MaxTicks, TickConfirms)

NextGiveback == ts_manage_start \/ giveback_manage_tick
SpecGiveback == InitManage /\ [][NextGiveback]_vars

\* --------------------------------------- cancellation inside a manager tick
\* run_scheduler awaits the manager, so a cancellation of the trading loop
\* is raised at the await the manager is suspended in; CancelledError is no
\* Exception, the manager's "except Exception" handlers let it through, and
\* run_scheduler logs STOP and re-raises.  The awaits of a tick: the poll
\* sleep that opens it, and the Telegram notices after the stop close and
\* after the TP1_HIT event (tg_send suspends only with a bot token set).
CancelPoints == { "poll_sleep", "sl_notify", "tp1_notify" }

\* what the database and the venue hold for trade tid: the trade row, the
\* order rows, the stop, and whether a TP1_HIT event row was written
Persisted(T, O, tid, sl, tp1_event) ==
    [row |-> T[tid], orders |-> O, sl |-> sl, tp1_event |-> tp1_event]

\* the tick with inputs inp, whose full run would end as r, cancelled at
\* point: the writes up to point stay, nothing after it is done
manage_cancelled(point, inp, t, r) ==
    LET tp1_now == r.mgr.hit_tp1 /\ ~mgr.hit_tp1
    IN  /\ point = "sl_notify" => inp.tg_on /\ "CLOSED" \in r.tags
        /\ point = "tp1_notify" => inp.tg_on /\ tp1_now
        /\ point = "poll_sleep" => inp.shape = FirstShape /\ inp.feats = NoFeats /\ ~inp.tg_on
        /\ now' = IF point = "poll_sleep" THEN now ELSE t
        /\ trades' = IF point = "sl_notify" THEN r.trades ELSE trades
        /\ sl_held' = IF point = "tp1_notify" THEN SetHeld(sl_held, mgr.tid, r.mgr.sl) ELSE sl_held
        /\ UNCHANGED orders
        /\ op' = [name |-> "manage_cancel", tid |-> mgr.tid, point |-> point, inp |-> inp,
                  tp1_event |-> point = "tp1_notify",
                  before |-> Persisted(trades, orders, mgr.tid, sl_held[mgr.tid], FALSE),
                  full |-> Persisted(r.trades, r.orders, mgr.tid, r.mgr.sl, tp1_now)]
        /\ tags' = {"STOP"}
        /\ mgr' = NoMgr
        /\ pc' = "cancelled"

manage_cancel ==
    /\ pc = "manage"
    /\ mgr.engine = "trendscalp"
    /\ mgr.ticks < MaxTicks
    /\ \E point \in CancelPoints, shape \in ExternalShapes, feats \in ManageFeats,
          tg_on \in BOOLEAN :
         LET inp == [venue_flat |-> FALSE, fetch_ok |-> TRUE, shape |-> shape, feats |-> feats,
                     ml_slope |-> 0, tps |-> mgr.tps, ex_ok |-> TRUE, hard_break |-> FALSE,
                     err |-> "none", conf |-> CHOOSE c \in TickConfirms : TRUE,
                     tg_on |-> tg_on]
         IN  \E t \in ManagePolls(now) :
                 manage_cancelled(point, inp, t, ts_tick(mgr, inp, t, dry_run, trades, orders))
    /\ UNCHANGED <<boots, dry_run, last_traded_bar_ts, ts_last>>

NextCancel == ts_manage_start \/ external_manage_tick \/ manage_cancel
SpecCancel == InitManage /\ [][NextCancel]_vars

\* ------------------------------ the manager, with stop confirmation on
\* SpecManage's trade and manager with SL_CLOSE_CONFIRM_BARS set to
\* ConfirmBars: on a stop touch the confirmation fetch answers with up to
\* MaxConfirmCloses closes just inside, at, or beyond the stop (which is 100
\* cents from entry), or raises.
ConfirmBars      == 2
MaxConfirmCloses == 2
ConfirmShapes == { <<30, 20, 25>>, <<-80, -100, -90>> }
RECURSIVE SeqsUpTo(_, _)
SeqsUpTo(S, n) ==
    IF n = 0 THEN { <<>> }
    ELSE SeqsUpTo(S, n - 1) \cup
         { Append(q, x) : q \in { r \in SeqsUpTo(S, n - 1) : Len(r) = n - 1 }, x \in S }
ConfirmFetches ==
    { [need |-> ConfirmBars, closes |-> q, raised |-> FALSE] :
        q \in SeqsUpTo({-90, -100, -110}, MaxConfirmCloses) }
    \cup { [need |-> ConfirmBars, closes |-> <<>>, raised |-> TRUE] }

confirm_manage_tick ==
    ts_manage_iter(ManagePolls(now), ConfirmShapes, { NoFeats }, MaxTicks, ConfirmFetches)

NextConfirm == ts_manage_start \/ confirm_manage_tick
SpecConfirm == InitManage /\ [][NextConfirm]_vars

\* ------------------------------------------ the TP sanitizer, on its own
\* _sanitize_tp_order as the function it is: applied, and applied again to
\* its result, on drafts whose TPs lie at SanitizeOffs from entry (in units
\* of 0.00001, counted in the trade's direction): around the fee cushion
\* of 0.10, further out, and on the wrong side.
MaxSanitizeTps == 3

SanitizeOffs == { 10004, 10006, PX(60), PX(100), PX(150), 0 - PX(20) }
SanitizeDrafts ==
    { [side |-> side, entry |-> FirstPrice,
       sl |-> IF side = "LONG" THEN FirstPrice - PX(100) ELSE FirstPrice + PX(100),
       tps |-> [k \in 1..Len(q) |-> IF side = "LONG" THEN FirstPrice + q[k]
                                      ELSE FirstPrice - q[k]],
       engine |-> "trendscalp"] :
      side \in Sides, q \in SeqsUpTo(SanitizeOffs, MaxSanitizeTps) \ { <<>> } }

InitSanitize ==
    /\ now = Epoch0S * 1000
    /\ dry_run = TRUE
    /\ trades = <<>>
    /\ orders = <<>>
    /\ pc = "sanitize"
    /\ last_traded_bar_ts = 0
    /\ ts_last = NoTsMem
    /\ mgr = NoMgr
    /\ sl_held = <<>>
    /\ boots = 1
    /\ op \in { [name |-> "draft", d |-> d] : d \in SanitizeDrafts }
    /\ tags = {}

sanitize_pass ==
    /\ pc = "sanitize"
    /\ pc' = "sanitized"
    /\ op' = [name |-> "_sanitize_tp_order", d |-> op.d, out |-> _sanitize_tp_order(op.d)]
    /\ UNCHANGED <<now, dry_run, trades, orders, last_traded_bar_ts, ts_last, mgr, sl_held,
                   boots, tags>>

sanitize_pass_again ==
    /\ pc = "sanitized"
    /\ pc' = "sanitized_twice"
    /\ op' = [name |-> "_sanitize_tp_order_again", d |-> op.d, out |-> op.out,
              out2 |-> _sanitize_tp_order(op.out)]
    /\ UNCHANGED <<now, dry_run, trades, orders, last_traded_bar_ts, ts_last, mgr, sl_held,
                   boots, tags>>

NextSanitize == sanitize_pass \/ sanitize_pass_again
SpecSanitize == InitSanitize /\ [][NextSanitize]_vars

\* --------------------------------------------- money.py: position sizing
\* Quantities are in thousandths of a lot, balances in whole quote units,
\* the percentages of the configuration in whole percent.
MIN_QTY      == 1000
MAX_QTY_CAP  == 1500000
NOTIONAL_MIN == 0
MIN_SL_ABS   == 0
\* _min_sl_fraction with neither MIN_SL_FRAC nor MIN_SL_PCT in the
\* environment: the module's MIN_SL_PCT / 100, in basis points of entry
MIN_SL_FRACTION_BP == 5

PAPER_USE_START_BALANCE == TRUE
PAPER_START_BALANCE     == 1000

\* entry * q, in quote units
Notional(entry, q) == ((entry \div 1000) * q) \div 100000

_qty_capital(cfg, balance_quote, entry) ==
    IF balance_quote <= 0 \/ entry <= 0 THEN 0
    ELSE Max2(0, (balance_quote * Max2(cfg.CAPITAL_FRACTION, 0) * Max2(cfg.MAX_LEVERAGE, 1)
                  * 1000) \div (entry \div 1000))

_qty_risk(cfg, balance_quote, entry, sl) ==
    IF balance_quote <= 0 \/ entry <= 0 \/ sl <= 0 THEN 0
    ELSE LET per_unit_loss == Max2(Max2(Abs(entry - sl), BP(entry, MIN_SL_FRACTION_BP)),
                                   Max2(MIN_SL_ABS, 0))
         IN  IF per_unit_loss <= 0 THEN 0
             ELSE Max2(0, (balance_quote * Max2(cfg.RISK_PCT, 0) * 1000)
                          \div (per_unit_loss \div 1000))

_apply_qty_caps(qty) ==
    LET q0 == Max2(0, qty)
        q1 == IF MAX_QTY_CAP > 0 THEN Min2(q0, MAX_QTY_CAP) ELSE q0
    IN  IF q1 > 0 /\ q1 < Max2(MIN_QTY, 0) THEN Max2(MIN_QTY, 0) ELSE q1

\* choose_size; dry is C.DRY_RUN.  bumped tells that the size chosen by
\* the mode was positive and below MIN_QTY.
choose_size(cfg, dry, balance_quote, entry, sl) ==
    LET effective_balance ==
            IF dry /\ PAPER_USE_START_BALANCE /\ PAPER_START_BALANCE # 0
            THEN PAPER_START_BALANCE ELSE balance_quote
        qc == _qty_capital(cfg, effective_balance, entry)
        qr == _qty_risk(cfg, effective_balance, entry, sl)
        q0 == IF cfg.SIZING_MODE = "capital_frac" THEN qc
              ELSE IF cfg.SIZING_MODE = "risk_r" THEN qr
              ELSE IF qc > 0 /\ qr > 0 THEN Min2(qc, qr) ELSE Max2(qc, qr)
        min_q == Max2(MIN_QTY, 0)
        tiny == q0 > 0 /\ q0 < min_q
        cap_q == IF qc > 0 THEN qc ELSE _qty_capital(cfg, balance_quote, entry)
        q1 == IF tiny /\ cap_q > 0 THEN Min2(min_q, cap_q) ELSE q0
    IN  [effective_balance |-> effective_balance, qc |-> qc, bumped |-> tiny,
         q |-> IF NOTIONAL_MIN > 0 /\ entry > 0 /\ q1 > 0 /\ Notional(entry, q1) < NOTIONAL_MIN
               THEN 0 ELSE _apply_qty_caps(q1)]

SizeConfigs ==
    { [SIZING_MODE |-> m, CAPITAL_FRACTION |-> f, MAX_LEVERAGE |-> l, RISK_PCT |-> 1] :
      m \in { "capital_frac", "risk_r", "both" }, f \in { 10, 20 }, l \in { 1, 5 } }
SizeBalances == { 0, 50, 150, 1000, 10000 }
SizeEntries  == { PX(10000), PX(2500) }
SizeSlGaps   == { PX(1), PX(100) }

InitSize ==
    /\ now = Epoch0S * 1000
    /\ dry_run \in BOOLEAN
    /\ trades = <<>>
    /\ orders = <<>>
    /\ pc = "size"
    /\ last_traded_bar_ts = 0
    /\ ts_last = NoTsMem
    /\ mgr = NoMgr
    /\ sl_held = <<>>
    /\ boots = 1
    /\ op \in { [name |-> "args", cfg |-> cfg, balance |-> b, entry |-> e, sl |-> e - g] :
                cfg \in SizeConfigs, b \in SizeBalances, e \in SizeEntries, g \in SizeSlGaps }
    /\ tags = {}

choose_size_call ==
    /\ pc = "size"
    /\ pc' = "sized"
    /\ op' = [name |-> "choose_size", cfg |-> op.cfg, balance |-> op.balance,
              entry |-> op.entry, sl |-> op.sl,
              out |-> choose_size(op.cfg, dry_run, op.balance, op.entry, op.sl)]
    /\ UNCHANGED <<now, dry_run, trades, orders, last_traded_bar_ts, ts_last, mgr, sl_held,
                   boots, tags>>

NextSize == choose_size_call
SpecSize == InitSize /\ [][NextSize]_vars

\* ------------------------------------- the engine loops, on their own
\* scan_once's choice of a draft, for every answer the two engines may
\* give, a raise included, with and without a heatmap in the way and with
\* and without an earlier trendscalp signal in the engine's memory.
EngineAnswers == RawSignals \cup {"RAISE"}
EngineMems ==
    { NoTsMem, [px |-> FirstPrice, side |-> "LONG", bar |-> Tf5Ts(Epoch0S * 1000) - Bar5Ms] }

InitEngines ==
    /\ now = Epoch0S * 1000
    /\ dry_run = TRUE
    /\ trades = <<>>
    /\ orders = <<>>
    /\ pc = "engines"
    /\ last_traded_bar_ts = 0
    /\ ts_last \in EngineMems
    /\ mgr = NoMgr
    /\ sl_held = <<>>
    /\ boots = 1
    /\ \E price \in { FirstPrice, PX(10050) }, raw_ts \in EngineAnswers,
          raw_taser \in EngineAnswers :
       \E hm \in HeatMaps(price) :
         op = [name |-> "init",
               inp |-> [price |-> price, raw_ts |-> raw_ts, raw_taser |-> raw_taser,
                        bar |-> now, hm |-> hm]]
    /\ tags = {}

\* scan_once from the first engine loop to the NO_TRADE exit
engines_select ==
    /\ pc = "engines"
    /\ LET sel == scan_select(op.inp, ts_last, trades, now)
       IN  /\ op' = [name |-> "scan_select", inp |-> op.inp, mem |-> ts_last, sel |-> sel]
           /\ ts_last' = sel.mem
           /\ tags' = sel.tags
    /\ pc' = "selected"
    /\ UNCHANGED <<now, dry_run, trades, orders, last_traded_bar_ts, mgr, sl_held, boots>>

NextEngines == engines_select
SpecEngines == InitEngines /\ [][NextEngines]_vars

\* ================================================================ claims
\* the stop s is at least as tight as the stop s0, for a trade of side
NotLooser(side, s, s0) == IF side = "LONG" THEN s >= s0 ELSE s <= s0

\* C1: at every moment of a run (startup recovery, scan cycles, manager
\* loops, error paths) the number of trades whose status is OPEN or PARTIAL
\* is 0 or 1.
C1_AtMostOneOpenTrade ==
    Cardinality({ i \in 1..Len(trades) : trades[i].status \in {"OPEN", "PARTIAL"} }) <= 1

\* C1 at work: a scan has just created a second trade, after the first one
\* was closed, and it is the only open one
C1_Witness ==
    /\ op.name = "scan_once" /\ op.tid = 2
    /\ trades[1].status \notin {"OPEN", "PARTIAL"}
    /\ trades[2].status = "OPEN"

\* C2: for any trade, the stops its manager holds one after the other never
\* loosen: non-decreasing for LONG, non-increasing for SHORT.
C2_StopNeverLoosened ==
    [][\A i \in 1..Len(sl_held) :
          (sl_held[i] # 0 /\ sl_held'[i] # 0)
              => NotLooser(trades[i].side, sl_held'[i], sl_held[i])]_vars

\* C3: a scan never creates a trade on a side that the heatmap confluence
\* gate blocks for the heatmap and price of that scan.
C3_NoTradeOnBlockedSide ==
    (op.name = "scan_once" /\ op.tid # 0)
        => ~confluence_gate(op.inp.hm, op.inp.price, trades[op.tid].side,
                            _hm_gate_params.tol_pct, _hm_gate_params.need_tfs,
                            _hm_gate_params.top_n)

\* C4: in paper mode a second place_bracket call for the same trade returns
\* no order ids, emits BRACKET_EXISTS and leaves the trade's order count as
\* it was.
C4_SecondBracketIsNoop ==
    (op.name = "place_bracket" /\ op.call = 2 /\ dry_run)
        => /\ op.ids = 0
           /\ "BRACKET_EXISTS" \in tags
           /\ order_count(orders, 1) = op.count_before

C6_BreakEvenAfterTP1 ==
    (/\ pc = "manage"
     /\ op.name \in {"ts_manage_tick", "surveil_loop_tick"}
     /\ op.before.hit_tp1
     /\ "NO_1M" \notin tags
     /\ "SL_COOLDOWN_SKIP" \notin tags)
        => NotLooser(mgr.side, mgr.sl,
                     IF mgr.side = "LONG" THEN mgr.entry + BP(mgr.entry, FEES_PCT_PAD)
                                          ELSE mgr.entry - BP(mgr.entry, FEES_PCT_PAD))

\* the gap C7 names: max(SL_MIN_GAP_ATR_MULT * ATR, SL_MIN_GAP_PCT * price)
C7Gap(price, atr) == Max2(PCT(atr, SL_MIN_GAP_ATR_MULT), BP(price, SL_MIN_GAP_PCT))

\* C7 as written: after any pass of guard_sl the returned stop is at least
\* max(SL_MIN_GAP_ATR_MULT * ATR, SL_MIN_GAP_PCT * price) away from price.
C7_MinGapAfterGuard ==
    op.name = "guard_sl" =>
        Abs(op.args.price - op.out) >= C7Gap(op.args.price, op.args.atr)

\* C7 amended: after any pass of guard_sl the returned stop is the current
\* stop, unchanged, or it lies on the protective side of price at least
\* max(SL_MIN_GAP_ATR_MULT * ATR, SL_MIN_GAP_PCT * price) away from it.
C7_MinGapWhenMoved ==
    op.name = "guard_sl" =>
        \/ op.out = op.args.sl_current
        \/ (IF op.args.is_long THEN op.args.price - op.out ELSE op.out - op.args.price)
               >= C7Gap(op.args.price, op.args.atr)

\* C7 at work: a pass without the BE floor that moved the stop, to a value
\* that is not the candidate: the min-gap clamp decided it
C7_Witness ==
    /\ op.name = "guard_sl"
    /\ ~op.args.allow_be
    /\ op.out # op.args.sl_current
    /\ op.out # op.args.sl_candidate

\* C8: two consecutive trade creations on the same side, the later entry
\* within BLOCK_REENTRY_PCT of the earlier, have created_ts at least
\* MIN_REENTRY_SECONDS apart.
C8_ReentrySpacing ==
    \A i \in 2..Len(trades) :
        (/\ trades[i].side = trades[i - 1].side
         /\ Abs(trades[i].entry - trades[i - 1].entry) * 10000
                < BLOCK_REENTRY_PCT * Abs(trades[i - 1].entry))
            => trades[i].created_ts - trades[i - 1].created_ts >= MIN_REENTRY_SECONDS * 1000

\* C9: a scan that starts less than MIN_REENTRY_SECONDS after the previous
\* trade closed, with a signal on that trade's side at a price within
\* BLOCK_REENTRY_PCT of its entry, emits REENTRY_BLOCK and creates no trade.
C9_ReentryBlockEmitted ==
    (/\ op.name = "scan_once"
     /\ \E i \in 1..Len(trades) : trades[i].closed_ts # 0
     /\ LET last == CHOOSE i \in 1..Len(trades) :
                        /\ trades[i].closed_ts # 0
                        /\ \A j \in 1..Len(trades) : trades[j].closed_ts # 0 => j <= i
        IN  /\ (op.t0 \div 1000) - (trades[last].closed_ts \div 1000) < MIN_REENTRY_SECONDS
            /\ trades[last].side \in {op.inp.raw_ts, op.inp.raw_taser}
            /\ Abs(op.inp.price - trades[last].entry) * 10000
                   < BLOCK_REENTRY_PCT * Abs(trades[last].entry))
        => ("REENTRY_BLOCK" \in tags /\ op.tid = 0)

\* C10: a scan creates no trade on the side of the last closed trade at a
\* price with |price - last_entry| / price < BLOCK_REENTRY_PCT, whether or
\* not the time cool-off is still active.
C10_ProximityBlocksAlone ==
    (/\ op.name = "scan_once"
     /\ op.tid # 0
     /\ \E i \in 1..Len(trades) : trades[i].closed_ts # 0)
        => LET last == CHOOSE i \in 1..Len(trades) :
                           /\ trades[i].closed_ts # 0
                           /\ \A j \in 1..Len(trades) : trades[j].closed_ts # 0 => j <= i
           IN  ~(/\ trades[op.tid].side = trades[last].side
                 /\ Abs(op.inp.price - trades[last].entry) * 10000
                        < BLOCK_REENTRY_PCT * op.inp.price)

\* C11: when a trendscalp manager tick recognises TP1 and the tick's regime
\* is CHOP, the remainder is flattened at market on that tick, the trade is
\* closed as CLOSED_PEV and the manager loop has ended.
C11_ChopExitAtTP1 ==
    (/\ op.name = "ts_manage_tick"
     /\ ~op.before.hit_tp1 /\ op.after.hit_tp1
     /\ op.after.regime = "CHOP")
        => /\ pc = "scan" /\ mgr = NoMgr
           /\ trades[op.tid].status = "CLOSED_PEV"
           /\ \E i \in 1..Len(orders) : orders[i].tid = op.tid /\ orders[i].typ = "market_exit"

\* C12: before TP1, on a tick where the EMA200 side has flipped against the
\* position and price has broken the recent 1m swing by the ATR pad (and the
\* stop was not touched), the manager sends the market exit, the trade is
\* closed as CLOSED_PEV and the loop has ended.
C12_HardInvalidationExits ==
    (/\ op.name = "ts_manage_tick"
     /\ op.inp.hard_break
     /\ ~op.before.hit_tp1)
        => /\ pc = "scan" /\ mgr = NoMgr
           /\ "PEV_EXIT" \in tags
           /\ trades[op.tid].status = "CLOSED_PEV"

\* C13: in milestone mode, for the LONG with entry 100.00, stop 99.00 and TPs
\* 100.60 / 101.00 / 101.50 whose manager has worked on the ticks 100.60,
\* 100.80, 101.10 (and one more at 101.10, TP2 being recognised at the end
\* of the third), the stop is >= 100.07 after the tick at 100.80, >= 100.32
\* after the tick at 101.10, and >= 100.70 after the tick that follows TP2.
\* Stated for ticks the tighten cooldown did not hold back.
C13_Ticks == << <<60, 60, 60>>, <<80, 80, 80>>, <<110, 110, 110>>, <<110, 110, 110>> >>
C13_After(n) ==
    /\ op.name = "ts_manage_tick" /\ pc = "manage"
    /\ mgr.side = "LONG" /\ mgr.entry = PX(10000) /\ mgr.R_init = PX(100)
    /\ mgr.tps = <<PX(10060), PX(10100), PX(10150)>>
    /\ op.seen = SubSeq(C13_Ticks, 1, n)
    /\ "SL_COOLDOWN_SKIP" \notin tags /\ "NO_1M" \notin tags
C13_MilestoneTrajectory ==
    /\ C13_After(2) => mgr.sl >= PX(10007)
    /\ C13_After(3) => mgr.sl >= PX(10032)
    /\ C13_After(4) => mgr.sl >= PX(10070)
\* the first and the last bound of C13 on their own
C13_AfterTP1Part == C13_After(2) => mgr.sl >= PX(10007)
C13_AfterTP2Part == C13_After(4) => mgr.sl >= PX(10070)

\* C14: the regime decision has hysteresis: a call that brings the same
\* observation as the call before it leaves the regime as that call left
\* it, so the same input fed repeatedly causes at most one transition.
C14_NoOscillation ==
    (op.name \in {"ts_regime_tick", "classify_call"} /\ op.repeat)
        => mgr.last_regime = op.before
\* a repeated observation right after the call that changed the regime
C14_Witness ==
    /\ op.name = "ts_regime_tick" /\ op.repeat /\ op.prev_moved
    /\ op.before = "RUNNER" /\ mgr.last_regime = "RUNNER"

\* C15: on a manager tick the regime goes from CHOP to RUNNER if and only
\* if ADX >= TS_ADX_UP and ATR% >= TS_ATR_UP and EMA-side * close-slope >= 0.
C15_ChopToRunnerIff ==
    (op.name = "ts_regime_tick" /\ op.before = "CHOP")
        => ((mgr.last_regime = "RUNNER")
            <=> (/\ op.obs.adx >= TS_ADX_UP
                 /\ op.obs.atr * 10000 >= TS_ATR_UP * FirstPrice
                 /\ (IF FirstPrice >= op.obs.ema200 THEN 1 ELSE -1)
                    * (IF FirstPrice > op.obs.prev_close THEN 1 ELSE -1) >= 0))
\* the same statement holds of regime.classify
C15_ClassifyIff ==
    (op.name = "classify_call" /\ op.before = "CHOP" /\ op.obs # EmptyObs)
        => ((mgr.last_regime = "RUNNER")
            <=> (/\ op.obs.adx >= TS_ADX_UP
                 /\ op.obs.atr * 10000 >= TS_ATR_UP * FirstPrice
                 /\ (IF FirstPrice >= op.obs.ema200 THEN 1 ELSE -1)
                    * (IF FirstPrice > op.obs.prev_close THEN 1 ELSE -1) >= 0))

\* C16: every signal that becomes a trade has its stop between the rails,
\* MIN_SL_PCT <= |entry - sl| / entry <= MAX_SL_PCT, whether the first engine
\* loop or the fallback loop produced it.
C16_StopWithinRails ==
    \A i \in 1..Len(trades) :
        /\ Abs(trades[i].entry - trades[i].sl) * 10000 >= MIN_SL_PCT * trades[i].entry
        /\ Abs(trades[i].entry - trades[i].sl) * 10000 <= MAX_SL_PCT * trades[i].entry
\* the same with half a unit of the fourth decimal allowed for the rounding
\* of the stop
C16_WithinRounding ==
    \A i \in 1..Len(trades) :
        /\ (Abs(trades[i].entry - trades[i].sl) + 5) * 10000 >= MIN_SL_PCT * trades[i].entry
        /\ (Abs(trades[i].entry - trades[i].sl) - 5) * 10000 <= MAX_SL_PCT * trades[i].entry

\* C17: every signal that becomes a trade has its take-profits strictly
\* ordered away from entry on the profit side (LONG: entry < tp1 < tp2 < tp3,
\* SHORT mirrored), whether the first engine loop or the fallback loop
\* produced it.
C17_TpsOrdered ==
    \A i \in 1..Len(trades) :
        LET r == trades[i]
            beyond(a, b) == IF r.side = "LONG" THEN a > b ELSE a < b
        IN  /\ r.tps # <<>> => beyond(r.tps[1], r.entry)
            /\ \A k \in 1..(Len(r.tps) - 1) : beyond(r.tps[k + 1], r.tps[k])
\* a fallback signal whose ladder the engine had to stretch and pad
C17_Witness ==
    /\ op.name = "scan_draft" /\ op.fallback /\ op.atr = 0
    /\ Len(trades) = 1 /\ Len(trades[1].tps) = 3

\* C18: at any time a trade has at most one stop_loss order with status
\* open, also after the manager replaced the stop and after place_bracket
\* was called again for the trade.
C18_OneOpenStopLoss ==
    \A tid \in 1..Len(trades) :
        Cardinality({ i \in 1..Len(orders) :
                        /\ orders[i].tid = tid
                        /\ orders[i].typ = "stop_loss"
                        /\ orders[i].status = "open" }) <= 1

\* C19: after startup, an exception (other than a cancellation) raised by
\* recovery, by a scan cycle, by bracket placement or by a manager call never
\* ends run_scheduler: it is caught and logged, and the scheduler goes on to
\* further scan cycles
C19_Raised ==
    \/ op.name \in {"recover_raise", "scan_raise", "manage_raise"}
    \/ op.name = "scan_once" /\ "BRACKET_PLACE" \in tags /\ pc # "manage_start"
C19_ErrorsNeverEndScheduler ==
    C19_Raised => /\ pc \in {"scan", "sleep_err"}
                  /\ tags \cap {"RUN_ERROR", "RECOVER_ERROR"} # {}
\* the part that holds: an exception raised inside the scan loop
C19_LoopErrorsCaught ==
    (C19_Raised /\ ~(op.name = "manage_raise" /\ op.resumed))
        => /\ pc \in {"scan", "sleep_err"}
           /\ tags \cap {"RUN_ERROR", "RECOVER_ERROR"} # {}

\* C20: an engine whose signal call raises counts as an engine that
\* answered NONE in this cycle: the scan goes on, the engines after it in the
\* configured order are still consulted, and the scan ends with the draft,
\* the engine memory and the heatmap verdict it would have had with NONE in
\* place of the raise.
C20_AsNone(x) == IF x = "RAISE" THEN "NONE" ELSE x
C20_RaiseIsNone ==
    op.name = "scan_select" =>
        LET inp == op.inp
            ref == scan_select([inp EXCEPT !.raw_ts = C20_AsNone(@),
                                           !.raw_taser = C20_AsNone(@)],
                               op.mem, trades, now)
        IN  /\ op.sel.d = ref.d
            /\ op.sel.mem = ref.mem
            /\ op.sel.blocked = ref.blocked
            /\ (inp.raw_ts = "RAISE" /\ inp.raw_taser \in Sides /\ inp.hm = <<>>)
                   => op.sel.d.engine = "taser" /\ op.sel.d.side = inp.raw_taser
\* trendscalp raised, taser after it fired and became the draft
C20_Witness ==
    /\ op.name = "scan_select"
    /\ op.inp.raw_ts = "RAISE" /\ "SCALP_ERROR" \in tags
    /\ op.sel.d.engine = "taser" /\ op.sel.d.side = "LONG"

\* C21: on a manager tick whose feature computation raised (the indicator
\* recompute or the FSM proposal), the exception is caught and the tick
\* changes neither the stop nor the take-profits.
C21_ErrorTickChangesNothing ==
    (op.name = "ts_manage_tick" /\ op.inp.err # "none")
        => /\ sl_held[op.tid] = op.before.sl
           /\ mgr # NoMgr => mgr.tps = op.before.tps
\* the part that holds: a tick whose FSM proposal raised changes no
\* take-profit
C21_FsmErrorKeepsTps ==
    (op.name = "ts_manage_tick" /\ op.inp.err = "fsm" /\ mgr # NoMgr)
        => mgr.tps = op.before.tps

\* C22: when the managed trade's status was set to a non-open status from
\* outside while the manager loop runs, the manager's next tick notices it
\* and leaves the loop, with no further stop, take-profit or exit action on
\* the trade.
C22_ExternalCloseEndsManager ==
    (op.name = "ts_manage_tick" /\ op.before.row.status \notin OpenStatuses)
        => /\ mgr = NoMgr
           /\ sl_held[op.tid] = op.before.sl
           /\ trades[op.tid] = op.before.row
           /\ Len(orders) = op.before.orders

\* C23: with SL_CLOSE_CONFIRM_BARS = N > 0 the manager closes a trade for a
\* stop hit only on a tick where the last N consecutive 1m closes are all at
\* or beyond the stop; a touch without that confirmation leaves the trade
\* open and managed.
C23_Confirmed ==
    /\ Len(op.inp.conf.closes) >= op.inp.conf.need
    /\ \A i \in (Len(op.inp.conf.closes) - op.inp.conf.need + 1)..Len(op.inp.conf.closes) :
           op.inp.conf.closes[i] <= -100
C23_Touched ==
    /\ op.name = "ts_manage_tick" /\ op.inp.fetch_ok /\ ~op.inp.venue_flat
    /\ op.inp.conf.need > 0
    /\ op.inp.shape[2] <= -100
C24_FlipTick ==
    /\ op.name = "ts_manage_tick"
    /\ ~op.inp.venue_flat /\ op.inp.fetch_ok
    /\ op.before.hit_tp1 /\ ~op.before.hit_tp2
    /\ op.before.regime = "RUNNER"
    /\ op.after.regime = "CHOP" /\ ~op.after.hit_tp2
C25_EnsureIdempotentByPrice ==
    (op.name = "ensure_partial_tp1" /\ op.at_tp1)
        => /\ ~op.oid
           /\ orders = op.before

\* C26: after a paper exit_remainder_market that sent the exit, the trade
\* has no stop_loss or take_profit_* order row with status open.
C26_PaperExitCancelsProtective ==
    (op.name = "exit_remainder_market" /\ dry_run /\ op.oid)
        => \A i \in 1..Len(orders) :
               (orders[i].tid = 1 /\ orders[i].status = "open")
                   => orders[i].typ \notin ({"stop_loss"} \cup TakeProfitKinds)

\* C27: after a cancellation inside a manager tick, what is persisted for
\* the trade (its row, its orders, its stop, its TP1_HIT event) is what was
\* there before the tick or what the completed tick would have left.
C27_CancelIsAtomic ==
    op.name = "manage_cancel" =>
        Persisted(trades, orders, op.tid, sl_held[op.tid], op.tp1_event) \in { op.before, op.full }

\* C28: on a tick before TP1 whose post-entry validity answer is EXIT for
\* an exhausted grace window (soft only), the guard ends nothing: no
\* PEV_EXIT is logged, PEV_DOWNGRADED is, and unless the tick's later
\* stages end the trade on their own grounds (giveback, the CHOP exit at
\* TP1) no market exit is sent, the trade row stays as it was, and the
\* manager goes on.
C28_TickPrice ==
    IF op.before.row.side = "LONG" THEN op.before.row.entry + PX(op.inp.shape[3])
    ELSE op.before.row.entry - PX(op.inp.shape[3])
C28_SoftExitDue ==
    /\ op.name = "ts_manage_tick"
    /\ ~op.inp.venue_flat /\ op.inp.fetch_ok
    /\ ~op.before.hit_tp1
    /\ "CLOSED" \notin tags
    /\ LET pev == post_entry_validity(C28_TickPrice, op.inp.feats.adx14, op.inp.feats.atr5,
                                      TRUE, FALSE, op.before.pe, now)
       IN  pev.state = "EXIT"
C28_OtherExit ==
    tags \cap {"GIVEBACK_FLATTEN", "TP1_CHOP_EXIT_CONFIRMED"} # {}
C28_SoftExitDowngraded ==
    C28_SoftExitDue =>
        /\ "PEV_EXIT" \notin tags
        /\ "PEV_DOWNGRADED" \in tags
        /\ ~C28_OtherExit =>
               /\ mgr # NoMgr
               /\ pc = "manage"
               /\ trades[op.tid] = op.before.row
               /\ \A i \in (op.before.orders + 1)..Len(orders) : orders[i].typ # "market_exit"
C28_Witness ==
    /\ C28_SoftExitDue
    /\ ~C28_OtherExit
    /\ "PEV_DOWNGRADED" \in tags
    /\ mgr # NoMgr
    /\ trades[op.tid].status \in OpenStatuses

\* C29: on a tick that gets past the stop check, the manager flattens for
\* giveback exactly when MFE >= TS_GIVEBACK_ARM_R * R_init, the unrealized
\* gain is at most (1 - TS_GIVEBACK_FRAC) of MFE, and the ML slope is
\* negative; when it does, the market exit is sent (paper, or the venue
\* taking it), the paper trade is closed, and the manager ends.
C29_R    == Abs(op.before.row.entry - op.before.row.sl)
C29_Mfe  == Max2(op.before.mfe_abs, Max2(0, PX(op.inp.shape[1])))
C29_Gain == PX(op.inp.shape[3])
C29_Due ==
    /\ C29_Mfe * 100 >= TS_GIVEBACK_ARM_R * C29_R
    /\ C29_Gain * 100 <= (100 - TS_GIVEBACK_FRAC) * C29_Mfe
    /\ op.inp.ml_slope < 0
C30_AbsLockMovesStop ==
    (/\ op.name = "ts_manage_tick"
     /\ ~op.inp.venue_flat /\ op.inp.fetch_ok
     /\ mgr # NoMgr
     /\ ~mgr.hit_tp1
     /\ SCALP_ABS_LOCK_USD > 0
     /\ mgr.mfe_abs >= SCALP_ABS_LOCK_USD)
        => IF mgr.side = "LONG"
           THEN mgr.sl >= be_price(TRUE, mgr.entry) /\ sl_held[mgr.tid] >= be_price(TRUE, mgr.entry)
           ELSE mgr.sl <= be_price(FALSE, mgr.entry) /\ sl_held[mgr.tid] <= be_price(FALSE, mgr.entry)

\* C31: guard_sl applied to its own output, as candidate and as current
\* stop, under the same price, ATR, entry and flags, returns that output.
C31_GuardIdempotent ==
    op.name = "guard_sl_again" => op.out2 = op.out
C31_Witness ==
    /\ op.name = "guard_sl_again"
    /\ op.out # op.args.sl_current
    /\ op.out # op.args.sl_candidate
    /\ op.args.allow_be
    /\ op.out2 = op.out

\* C32: _sanitize_tp_order applied to a draft it has already sanitized
\* leaves the TP list unchanged.
C32_SanitizeIdempotent ==
    op.name = "_sanitize_tp_order_again" => op.out2.tps = op.out.tps

\* C33: any positive quantity choose_size returns after a MIN_QTY bump is at
\* most balance * CAPITAL_FRACTION * MAX_LEVERAGE / entry, the capital
\* allowance of the balance the size was computed from.
C33_BumpWithinCapital ==
    (op.name = "choose_size" /\ op.out.bumped /\ op.out.q > 0)
        => op.out.q <= _qty_capital(op.cfg, op.out.effective_balance, op.entry)

\* C34: whenever a position manager (run_trendscalp_manage or surveil_loop)
\* returns control to the scheduler, its trade is no longer OPEN or PARTIAL
\* in the trade DB, in paper and in live mode and on every exit path.
C34_ManagerReturnsTradeClosed ==
    (op.name \in {"ts_manage_tick", "surveil_loop_tick"} /\ pc = "scan")
        => trades[op.tid].status \notin OpenStatuses

\* trade i is OPEN or PARTIAL while no manager is running
Unmanaged(i) ==
    /\ i \in 1..Len(trades) /\ trades[i].status \in OpenStatuses
    /\ mgr = NoMgr /\ pc # "dead"
\* trade i is with a manager or closed, or the process has ended
Handled(i) ==
    \/ i \in 1..Len(trades) /\ ((mgr # NoMgr /\ mgr.tid = i) \/ trades[i].status \notin OpenStatuses)
    \/ pc = "dead"

C36_LiveBracketHasStop ==
    (op.name = "place_bracket" /\ ~dry_run /\ ~op.raised /\ "LIVE_ORDERS" \in tags)
        => \E i \in 1..Len(orders) :
              orders[i].tid = 1 /\ orders[i].typ = "stop_loss" /\ orders[i].status = "open"

\* C37: after every SL move applied by the manager, the sl stored on the
\* trade row equals the manager's current SL.
C37_RowStopFollowsManager ==
    (op.name \in {"ts_manage_tick", "surveil_loop_tick"} /\ "SL_REPLACED" \in tags
     /\ mgr # NoMgr)
        => trades[mgr.tid].sl = mgr.sl

\* C38: the same-bar memory last_traded_bar_ts is written only by a scan
\* cycle that creates a trade: a step that sets it to a bar adds a trade row.
C38_BarMemoryOnlyOnTrade ==
    [][(last_traded_bar_ts' # last_traded_bar_ts /\ last_traded_bar_ts' # 0)
           => Len(trades') = Len(trades) + 1]_vars

\* the manager's trade has seen a bar that reached its TP3
Tp3Reached ==
    /\ pc = "manage" /\ mgr # NoMgr /\ Len(mgr.tps) >= 3
    /\ mgr.mfe_abs >= Abs(mgr.tps[3] - mgr.entry)

C40_RunnerReachableWired ==
    (op.name = "ts_manage_tick" /\ ~op.inp.venue_flat /\ op.inp.fetch_ok)
        => \E tape \in Tapes, sh \in BarShapes :
              ts_regime(op.before.regime, compute_indicators(tape).adx14,
                        compute_indicators(tape).atr5,
                        ShapeBar(op.before.row, sh).close) = "RUNNER"

====
